---- MODULE Spec2Model ----
(***************************************************************************)
(* Regular expression -> postfix -> syntax tree -> Thompson NFA ->         *)
(* subset-construction DFA -> minimized DFA, and the three simulators.     *)
(*                                                                         *)
(* A Python str is a sequence of one-character strings; a token is a       *)
(* sequence of one or two characters; a dict is a function with a finite   *)
(* domain; a Python set is a set.  Positions are 1-based here (Python's    *)
(* index i is position i+1).                                               *)
(***************************************************************************)
EXTENDS Integers, Sequences, FiniteSets, TLC

VARIABLES pc, expr, expr2, tokens, postfix, root, nfa, issues,
          queue, processed, dfa, reachable_dfa, partitions, changed,
          iteration, dfa_min, simple_dfa_orig, simple_dfa_min, valid,
          word, results, nfa_raw, second_size, dequeued,
          lines, line_k, idx, success_count, total_count, handled,
          strings_file, stdin, tty, verbose, no_graphs, cross_test,
          call

vars == <<pc, expr, expr2, tokens, postfix, root, nfa, issues,
          queue, processed, dfa, reachable_dfa, partitions, changed,
          iteration, dfa_min, simple_dfa_orig, simple_dfa_min, valid,
          word, results, nfa_raw, second_size, dequeued,
          lines, line_k, idx, success_count, total_count, handled,
          strings_file, stdin, tty, verbose, no_graphs, cross_test,
          call>>

\* the drivers procesar_archivo, procesar_archivo_con_cadenas and
\* modo_interactivo: lines is the content of regex_path, strings_file the
\* content of strings_path (None without one), stdin the lines still to be
\* read from standard input, tty what sys.stdin.isatty() returns, verbose,
\* no_graphs and cross_test the parameters of these names (verbose and
\* no_graphs the locals of modo_interactivo).  call holds the round the
\* driver is in: expr and word are the arguments of its call of
\* procesar_expresion_completa (in modo_interactivo its locals, from the
\* moment they are read), typed is the word that call has read from standard
\* input, and at is the position: "none" between two rounds, "expr", "word",
\* "verbose" and "no_graphs" within a round of modo_interactivo, "start" when
\* the call begins, "asked" after the question of subset_construction_wrapper,
\* "simulate" once the word is known, "failed" in the except branch,
\* "returned_true" or "returned_false" back in the driver, "counted" after
\* the "success_count += 1" of procesar_archivo.
\* line_k is the loop counter (k of procesar_archivo, i of the sequential
\* mode, the number of cells tried in the cross test), idx the local of
\* procesar_archivo and of modo_interactivo.
\* handled lists the calls of procesar_expresion_completa made so far, and in
\* the cross test the cells tried so far:
\* <<expression, word or None, return value or verdict>>
batch_vars == <<lines, line_k, idx, success_count, total_count, handled,
                strings_file, stdin, tty, verbose, no_graphs, cross_test,
                call>>

\* the locals of procesar_expresion_completa and of the functions it calls;
\* dequeued lists the sets of NFA states that "while queue" of
\* subset_construction has taken with popleft so far, one per iteration
pipeline_vars ==
    <<expr, expr2, tokens, postfix, root, nfa, issues, queue, processed, dfa,
      reachable_dfa, partitions, changed, iteration, dfa_min, simple_dfa_orig,
      simple_dfa_min, valid, word, results, nfa_raw, second_size, dequeued>>

(***************************************************************************)
(* Characters                                                              *)
(***************************************************************************)
EPS == "ε"
BSL == "\\"
\* the one-character string U+2205 (EMPTY SET), which the TLA+ lexer does not
\* read; "0/" stands for that character
EMPTYSET == "0/"

Digits == <<"0", "1", "2", "3", "4", "5", "6", "7", "8", "9">>

\* the letters A to Z and the one accented letter among the answers
\* ask_yes_no knows, in upper and in lower case
UpperLetters ==
    <<"A", "B", "C", "D", "E", "F", "G", "H", "I", "J", "K", "L", "M", "N",
      "O", "P", "Q", "R", "S", "T", "U", "V", "W", "X", "Y", "Z", "Í">>

LowerLetters ==
    <<"a", "b", "c", "d", "e", "f", "g", "h", "i", "j", "k", "l", "m", "n",
      "o", "p", "q", "r", "s", "t", "u", "v", "w", "x", "y", "z", "í">>

\* the position of c in the sequence letters, 0 when it is not there
letter_index(letters, c) ==
    IF \E j \in 1..Len(letters) : letters[j] = c
    THEN CHOOSE j \in 1..Len(letters) : letters[j] = c
    ELSE 0

\* Unicode code point of each character the model uses (Python compares
\* strings by code point).
ord(c) ==
    CASE c = "(" -> 40 [] c = ")" -> 41 [] c = "*" -> 42 [] c = "+" -> 43
      [] c = "," -> 44 [] c = "-" -> 45 [] c = "." -> 46
      [] c = "0" -> 48 [] c = "1" -> 49 [] c = "2" -> 50 [] c = "3" -> 51
      [] c = "4" -> 52 [] c = "5" -> 53 [] c = "6" -> 54 [] c = "7" -> 55
      [] c = "8" -> 56 [] c = "9" -> 57
      [] c = "?" -> 63 [] c = "\\" -> 92 [] c = "_" -> 95
      [] c = "a" -> 97 [] c = "b" -> 98 [] c = "c" -> 99 [] c = "q" -> 113
      [] c = "{" -> 123 [] c = "|" -> 124 [] c = "}" -> 125
      [] c = "ε" -> 949 [] c = "0/" -> 8709
      [] c = "Í" -> 205 [] c = "í" -> 237
      [] letter_index(UpperLetters, c) > 0
            -> 64 + letter_index(UpperLetters, c)
      [] letter_index(LowerLetters, c) > 0
            -> 96 + letter_index(LowerLetters, c)

\* str.isalnum() on the characters of the model
isalnum(c) ==
    \/ c \in {"a", "b", "c", "q", "ε",
               "0", "1", "2", "3", "4", "5", "6", "7", "8", "9"}
    \/ letter_index(UpperLetters, c) > 0
    \/ letter_index(LowerLetters, c) > 0

\* Python's < on two strings (lexicographic by code point)
RECURSIVE str_lt(_, _)
str_lt(s, t) ==
    IF t = <<>> THEN FALSE
    ELSE IF s = <<>> THEN TRUE
    ELSE IF ord(s[1]) # ord(t[1]) THEN ord(s[1]) < ord(t[1])
    ELSE str_lt(Tail(s), Tail(t))

\* str(n) for a non-negative integer
RECURSIVE str(_)
str(n) == IF n < 10 THEN <<Digits[n + 1]>>
          ELSE str(n \div 10) \o <<Digits[(n % 10) + 1]>>

\* sorted(S) for a finite set of integers
RECURSIVE sorted_ints(_)
sorted_ints(S) ==
    IF S = {} THEN <<>>
    ELSE LET m == CHOOSE x \in S : \A y \in S : x <= y
         IN <<m>> \o sorted_ints(S \ {m})

\* sorted(S) for a finite set of strings
RECURSIVE sorted_strs(_)
sorted_strs(S) ==
    IF S = {} THEN <<>>
    ELSE LET m == CHOOSE x \in S : \A y \in S : x = y \/ str_lt(x, y)
         IN <<m>> \o sorted_strs(S \ {m})

\* d.get(k, []) on a dict of lists
get(d, k) == IF k \in DOMAIN d THEN d[k] ELSE <<>>

Range(s) == {s[i] : i \in DOMAIN s}

(***************************************************************************)
(* parsing/preprocessor.py                                                 *)
(***************************************************************************)
RECURSIVE backslash_run(_, _)
backslash_run(e, k) ==
    IF k >= 1 /\ e[k] = BSL THEN 1 + backslash_run(e, k - 1) ELSE 0

\* is_escaped(pos): an odd number of backslashes right before pos
is_escaped(e, pos) == (backslash_run(e, pos - 1) % 2) = 1

\* the inner while of the "( ... )" branch: the position after the scan
RECURSIVE scan_group(_, _, _)
scan_group(e, i, depth) ==
    IF i <= Len(e) /\ depth > 0
    THEN IF e[i] = "(" /\ ~is_escaped(e, i) THEN scan_group(e, i + 1, depth + 1)
         ELSE IF e[i] = ")" /\ ~is_escaped(e, i) THEN scan_group(e, i + 1, depth - 1)
         ELSE scan_group(e, i + 1, depth)
    ELSE i

\* a plausible slip: "token+" written out as "token*"
plus_expansion_star_only(token) == token \o <<"*">>

\* a plausible slip: the empty alternative of "token?" left out
question_expansion_no_eps(token) == <<"(">> \o token \o <<")">>

\* out += token + token + '*'
plus_expansion(token) == token \o token \o <<"*">>

\* out += f"({token}|ε)"
question_expansion(token) == <<"(">> \o token \o <<"|", EPS, ")">>

RECURSIVE expand_plus_question(_)
RECURSIVE expand_loop(_, _, _)
\* one iteration of "while i < n" and the rest of the loop
expand_loop(e, i, out) ==
    IF i > Len(e) THEN out
    ELSE LET n == Len(e)
             unit ==
                 IF e[i] = BSL /\ i + 1 <= n
                 THEN [token |-> SubSeq(e, i, i + 1), i |-> i + 2]
                 ELSE IF e[i] = "(" /\ ~is_escaped(e, i)
                 THEN LET j == scan_group(e, i + 1, 1)
                          inner == SubSeq(e, i + 1, j - 2)
                      IN [token |-> <<"(">> \o expand_plus_question(inner) \o <<")">>,
                          i |-> j]
                 ELSE [token |-> <<e[i]>>, i |-> i + 1]
             j == unit.i
             token == unit.token
         IN IF j <= n /\ ~is_escaped(e, j) /\ e[j] \in {"+", "?"}
            THEN IF e[j] = "+"
                 THEN expand_loop(e, j + 1, out \o plus_expansion(token))
                 ELSE expand_loop(e, j + 1, out \o question_expansion(token))
            ELSE expand_loop(e, j, out \o token)

expand_plus_question(e) == expand_loop(e, 1, <<>>)

\* first loop of insert_concatenation: split into tokens, "\X" is one token
RECURSIVE split_tokens(_, _)
split_tokens(e, i) ==
    IF i > Len(e) THEN <<>>
    ELSE IF e[i] = BSL /\ i + 1 <= Len(e)
         THEN <<SubSeq(e, i, i + 1)>> \o split_tokens(e, i + 2)
         ELSE <<<<e[i]>>>> \o split_tokens(e, i + 1)

\* second loop of insert_concatenation
RECURSIVE concat_loop(_, _)
concat_loop(toks, j) ==
    IF j > Len(toks) THEN <<>>
    ELSE LET tok == toks[j]
             dot == IF j > 1
                       /\ toks[j - 1] \notin {<<"|">>, <<"(">>}
                       /\ tok \notin {<<"|">>, <<")">>, <<"*">>, <<"+">>, <<"?">>}
                    THEN <<<<".">>>> ELSE <<>>
         IN dot \o <<tok>> \o concat_loop(toks, j + 1)

insert_concatenation(e) == concat_loop(split_tokens(e, 1), 1)

(***************************************************************************)
(* parsing/shunting_yard.py                                                *)
(***************************************************************************)
\* a plausible slip: concatenation and alternation given the same precedence
precedence_flat(op) ==
    IF op \in {<<"*">>, <<"+">>, <<"?">>} THEN 3
    ELSE IF op \in {<<".">>, <<"|">>} THEN 1
    ELSE 0

precedence(op) ==
    IF op \in {<<"*">>, <<"+">>, <<"?">>} THEN 3
    ELSE IF op = <<".">> THEN 2
    ELSE IF op = <<"|">> THEN 1
    ELSE 0

\* the operand test of shunting_yard
is_operand(token) ==
    \/ (Len(token) >= 1 /\ token[1] = BSL)
    \/ (Len(token) = 1 /\ (isalnum(token[1])
                           \/ token[1] \in {"_", "[", "]", "{", "}", EPS}))

\* "while stack and stack[-1] != '('": pop to output; the stack's top is its
\* last element
RECURSIVE pop_until_paren(_, _)
pop_until_paren(output, stack) ==
    IF stack # <<>> /\ stack[Len(stack)] # <<"(">>
    THEN pop_until_paren(Append(output, stack[Len(stack)]),
                         SubSeq(stack, 1, Len(stack) - 1))
    ELSE [output |-> output, stack |-> stack]

\* "while stack and precedence(stack[-1]) >= precedence(token)"
RECURSIVE pop_higher(_, _, _)
pop_higher(output, stack, token) ==
    IF stack # <<>> /\ precedence(stack[Len(stack)]) >= precedence(token)
       /\ stack[Len(stack)] # <<"(">>
    THEN pop_higher(Append(output, stack[Len(stack)]),
                    SubSeq(stack, 1, Len(stack) - 1), token)
    ELSE [output |-> output, stack |-> stack]

\* "while stack: output.append(stack.pop())"
RECURSIVE pop_all(_, _)
pop_all(output, stack) ==
    IF stack = <<>> THEN output
    ELSE pop_all(Append(output, stack[Len(stack)]),
                 SubSeq(stack, 1, Len(stack) - 1))

RECURSIVE sy_loop(_, _, _, _)
sy_loop(toks, k, output, stack) ==
    IF k > Len(toks) THEN pop_all(output, stack)
    ELSE LET token == toks[k]
         IN IF is_operand(token)
            THEN sy_loop(toks, k + 1, Append(output, token), stack)
            ELSE IF token = <<"(">>
            THEN sy_loop(toks, k + 1, output, Append(stack, token))
            ELSE IF token = <<")">>
            THEN LET r == pop_until_paren(output, stack)
                 IN IF r.stack # <<>> /\ r.stack[Len(r.stack)] = <<"(">>
                    THEN sy_loop(toks, k + 1, r.output,
                                 SubSeq(r.stack, 1, Len(r.stack) - 1))
                    ELSE sy_loop(toks, k + 1, r.output, r.stack)
            ELSE IF token \in {<<"|">>, <<".">>, <<"*">>, <<"+">>, <<"?">>}
            THEN LET r == pop_higher(output, stack, token)
                 IN sy_loop(toks, k + 1, r.output, Append(r.stack, token))
            ELSE sy_loop(toks, k + 1, output, stack)

\* the postfix output of shunting_yard(tokens)
shunting_yard(toks) == sy_loop(toks, 1, <<>>, <<>>)

(***************************************************************************)
(* parsing/ast_builder.py                                                  *)
(* None is the empty sequence; a child is <<>> or <<node>>.                *)
(***************************************************************************)
None == <<>>

RegexNode(value, left, right) == [value |-> value, left |-> left, right |-> right]

\* a plausible slip: a missing operand taken as None instead of failing
RECURSIVE tree_loop_padding(_, _, _)
tree_loop_padding(toks, k, stack) ==
    IF k > Len(toks) THEN [ok |-> TRUE, stack |-> stack]
    ELSE LET tok == toks[k]
             n == Len(stack)
             top(i) == IF i >= 1 THEN <<stack[i]>> ELSE None
             below(i) == IF i >= 1 THEN SubSeq(stack, 1, i) ELSE <<>>
         IN IF tok \in {<<"*">>, <<"+">>, <<"?">>}
            THEN tree_loop_padding(toks, k + 1,
                     Append(below(n - 1), RegexNode(tok, top(n), None)))
            ELSE IF tok \in {<<".">>, <<"|">>}
            THEN tree_loop_padding(toks, k + 1,
                     Append(below(n - 2), RegexNode(tok, top(n - 1), top(n))))
            ELSE tree_loop_padding(toks, k + 1,
                                   Append(stack, RegexNode(tok, None, None)))

\* the for loop of build_syntax_tree; ok is FALSE when a pop() met an empty
\* stack (IndexError)
RECURSIVE tree_loop(_, _, _)
tree_loop(toks, k, stack) ==
    IF k > Len(toks) THEN [ok |-> TRUE, stack |-> stack]
    ELSE LET tok == toks[k]
             n == Len(stack)
         IN IF tok \in {<<"*">>, <<"+">>, <<"?">>}
            THEN IF n < 1 THEN [ok |-> FALSE, stack |-> stack]
                 ELSE tree_loop(toks, k + 1,
                                Append(SubSeq(stack, 1, n - 1),
                                       RegexNode(tok, <<stack[n]>>, None)))
            ELSE IF tok \in {<<".">>, <<"|">>}
            THEN IF n < 2 THEN [ok |-> FALSE, stack |-> stack]
                 ELSE tree_loop(toks, k + 1,
                                Append(SubSeq(stack, 1, n - 2),
                                       RegexNode(tok, <<stack[n - 1]>>, <<stack[n]>>)))
            ELSE tree_loop(toks, k + 1, Append(stack, RegexNode(tok, None, None)))

\* build_syntax_tree: [ok, tree]; "return stack.pop()" fails on an empty stack
\* and otherwise returns the top, whatever else is left below it
build_syntax_tree(postfix_tokens) ==
    LET r == tree_loop(postfix_tokens, 1, <<>>)
    IN IF r.ok /\ r.stack # <<>>
       THEN [ok |-> TRUE, tree |-> <<r.stack[Len(r.stack)]>>]
       ELSE [ok |-> FALSE, tree |-> None]

(***************************************************************************)
(* algorithms/thompson.py                                                  *)
(* An NFA is [start, accept, transitions]; transitions maps a state to the *)
(* list of its <<symbol, destination>> pairs.                              *)
(***************************************************************************)
NFA(start, accept, transitions) ==
    [start |-> start, accept |-> accept, transitions |-> transitions]

\* _merge_trans(ta, tb): ta with every list of tb appended under its key
merge_trans(ta, tb) ==
    [s \in (DOMAIN ta) \cup (DOMAIN tb) |->
        IF s \in DOMAIN tb THEN get(ta, s) \o tb[s] ELSE ta[s]]

\* a plausible slip: the edges are not added
extend_skipped(trans, s, edges) == trans

\* trans.setdefault(s, []).extend(edges)
extend(trans, s, edges) ==
    [k \in (DOMAIN trans) \cup {s} |->
        IF k = s THEN get(trans, s) \o edges ELSE trans[k]]

\* a plausible slip: the counter read and never incremented
new_state_reused(id) == IF id = 0 THEN 1 ELSE id

\* new_state(): the counter after the increment, which is the id returned
new_state(id) == id + 1

lit_symbol(tok) ==
    IF tok = <<EPS>> THEN EPS
    ELSE IF tok[1] = BSL /\ Len(tok) = 2 THEN tok[2]
    ELSE tok[1]

EmptyTrans == [s \in {} |-> <<>>]

\* a plausible slip: A+ compiled as A*
plus_rewrite_star(node) == RegexNode(<<"*">>, node.left, None)

\* s1 = RegexNode('.', left=node.left, right=RegexNode('*', left=node.left))
plus_rewrite(node) ==
    RegexNode(<<".">>, node.left, <<RegexNode(<<"*">>, node.left, None)>>)

\* build(node) with the counter threaded through: [ok, id, nfa]; ok is FALSE
\* for "raise ValueError"
RECURSIVE build(_, _)
build(node, id) ==
    IF node.left = None /\ node.right = None
    THEN LET s == new_state(id)
             t == new_state(s)
         IN [ok |-> TRUE, id |-> t,
             nfa |-> NFA(s, t, (s :> <<<<lit_symbol(node.value), t>>>>))]
    ELSE LET v == node.value IN
    IF v = <<".">>
    THEN LET A == build(node.left[1], id)
             B == build(node.right[1], A.id)
             m == merge_trans(A.nfa.transitions, B.nfa.transitions)
         IN IF ~A.ok THEN A ELSE IF ~B.ok THEN B ELSE
            [ok |-> TRUE, id |-> B.id,
             nfa |-> NFA(A.nfa.start, B.nfa.accept,
                         extend(m, A.nfa.accept, <<<<EPS, B.nfa.start>>>>))]
    ELSE IF v = <<"|">>
    THEN LET A == build(node.left[1], id)
             B == build(node.right[1], A.id)
             s == new_state(B.id)
             t == new_state(s)
             t1 == merge_trans(merge_trans(EmptyTrans, A.nfa.transitions),
                               B.nfa.transitions)
             t2 == extend(t1, s, <<<<EPS, A.nfa.start>>, <<EPS, B.nfa.start>>>>)
             t3 == extend(t2, A.nfa.accept, <<<<EPS, t>>>>)
             t4 == extend(t3, B.nfa.accept, <<<<EPS, t>>>>)
         IN IF ~A.ok THEN A ELSE IF ~B.ok THEN B ELSE
            [ok |-> TRUE, id |-> t, nfa |-> NFA(s, t, t4)]
    ELSE IF v = <<"*">>
    THEN LET A == build(node.left[1], id)
             s == new_state(A.id)
             t == new_state(s)
             t1 == merge_trans(EmptyTrans, A.nfa.transitions)
             t2 == extend(t1, s, <<<<EPS, A.nfa.start>>, <<EPS, t>>>>)
             t3 == extend(t2, A.nfa.accept, <<<<EPS, A.nfa.start>>, <<EPS, t>>>>)
         IN IF ~A.ok THEN A ELSE
            [ok |-> TRUE, id |-> t, nfa |-> NFA(s, t, t3)]
    ELSE IF v = <<"+">>
    THEN LET A == build(node.left[1], id)
             s1 == plus_rewrite(node)
         IN IF ~A.ok THEN A ELSE build(s1, A.id)
    ELSE IF v = <<"?">>
    THEN LET A == build(node.left[1], id)
             s == new_state(A.id)
             t == new_state(s)
             t1 == merge_trans(EmptyTrans, A.nfa.transitions)
             t2 == extend(t1, s, <<<<EPS, A.nfa.start>>, <<EPS, t>>>>)
             t3 == extend(t2, A.nfa.accept, <<<<EPS, t>>>>)
         IN IF ~A.ok THEN A ELSE
            [ok |-> TRUE, id |-> t, nfa |-> NFA(s, t, t3)]
    ELSE [ok |-> FALSE, id |-> id, nfa |-> NFA(0, 0, EmptyTrans)]

\* thompson_from_ast(root): the counter starts at 0
thompson_from_ast(node) == build(node, 0)

(***************************************************************************)
(* utils/validation.py                                                     *)
(***************************************************************************)
\* every <<symbol, destination>> pair of a transition map
edges_of(T) == UNION {Range(T[s]) : s \in DOMAIN T}

\* _collect_states(transitions)
collect_states(T) == (DOMAIN T) \cup {e[2] : e \in edges_of(T)}

\* the states a breadth-first traversal from the states S visits
RECURSIVE reach_from(_, _)
reach_from(S, T) ==
    LET nxt == S \cup {e[2] : e \in UNION {Range(get(T, s)) : s \in S}}
    IN IF nxt = S THEN S ELSE reach_from(nxt, T)

\* number of list entries of T whose destination is t
RECURSIVE count_to(_, _)
count_to(lst, t) ==
    IF lst = <<>> THEN 0
    ELSE (IF lst[1][2] = t THEN 1 ELSE 0) + count_to(Tail(lst), t)

RECURSIVE indegree_over(_, _, _)
indegree_over(T, keys, t) ==
    IF keys = {} THEN 0
    ELSE LET k == CHOOSE x \in keys : TRUE
         IN count_to(T[k], t) + indegree_over(T, keys \ {k}, t)

indegree(T, t) == indegree_over(T, DOMAIN T, t)
outdegree(T, s) == Len(get(T, s))

\* validate_nfa(nfa): the issues found, in the order the code appends them
validate_nfa(n) ==
    LET T == n.transitions
        states == collect_states(T)
        seen == reach_from({n.start}, T)
        when(c, tag) == IF c THEN <<tag>> ELSE <<>>
    IN when(n.start \notin states, "start_missing")
       \o when(n.accept \notin states, "accept_missing")
       \o when(indegree(T, n.start) # 0, "start_indegree")
       \o when(outdegree(T, n.accept) # 0, "accept_outdegree")
       \o when(states \ seen # {}, "unreachable")
       \o when(n.accept \notin seen, "accept_unreachable")

\* the sort key (symbol, destination) of renumber_nfa
edge_lt(x, y) ==
    \/ ord(x[1]) < ord(y[1])
    \/ (x[1] = y[1] /\ x[2] < y[2])

\* sorted(lst, key=...): a stable insertion sort
RECURSIVE insert_edge(_, _)
insert_edge(sortedl, e) ==
    IF sortedl = <<>> THEN <<e>>
    ELSE IF edge_lt(e, sortedl[1]) THEN <<e>> \o sortedl
    ELSE <<sortedl[1]>> \o insert_edge(Tail(sortedl), e)

RECURSIVE sorted_edges(_)
sorted_edges(lst) ==
    IF lst = <<>> THEN <<>>
    ELSE insert_edge(sorted_edges(SubSeq(lst, 1, Len(lst) - 1)), lst[Len(lst)])

\* the inner for of the BFS: enqueue the unseen destinations, in order
RECURSIVE visit_edges(_, _, _)
visit_edges(lst, q, seen) ==
    IF lst = <<>> THEN [q |-> q, seen |-> seen]
    ELSE LET t == lst[1][2]
         IN IF t \notin seen
            THEN visit_edges(Tail(lst), Append(q, t), seen \cup {t})
            ELSE visit_edges(Tail(lst), q, seen)

\* "while q" of renumber_nfa
RECURSIVE bfs_order(_, _, _, _)
bfs_order(T, q, seen, order) ==
    IF q = <<>> THEN [order |-> order, seen |-> seen]
    ELSE LET s == Head(q)
             r == visit_edges(sorted_edges(get(T, s)), Tail(q), seen)
         IN bfs_order(T, r.q, r.seen, Append(order, s))

\* a plausible slip: the accept state left where the traversal met it
accept_last_skipped(order, accept) == order

\* order = [s for s in order if s != nfa.accept] + [nfa.accept]
accept_last(order, accept) ==
    SelectSeq(order, LAMBDA s : s # accept) \o <<accept>>

index_of(seq, x) == CHOOSE i \in DOMAIN seq : seq[i] = x

\* the lists of T rewritten under the mapping
map_edges(lst, mapping) == [i \in DOMAIN lst |-> <<lst[i][1], mapping[lst[i][2]]>>]

\* mapping = {old: i+1 for i, old in enumerate(order)}, order being the BFS
\* order, then the states it missed, then the accept state moved to the end
renumber_mapping(n, make_accept_last) ==
    LET T == n.transitions
        states == collect_states(T)
        b == bfs_order(T, <<n.start>>, {n.start}, <<>>)
        order1 == b.order \o sorted_ints(states \ b.seen)
        order == IF make_accept_last /\ n.accept \in Range(order1)
                 THEN accept_last(order1, n.accept)
                 ELSE order1
    IN [old \in Range(order) |-> index_of(order, old)]

renumber_nfa(n, make_accept_last) ==
    LET T == n.transitions
        mapping == renumber_mapping(n, make_accept_last)
        keys == {s \in DOMAIN T : T[s] # <<>>}
        T2 == [ns \in {mapping[s] : s \in keys} |->
                  LET s == CHOOSE x \in keys : mapping[x] = ns
                  IN map_edges(T[s], mapping)]
    IN NFA(mapping[n.start], mapping[n.accept], T2)

(***************************************************************************)
(* algorithms/simulation.py                                                *)
(***************************************************************************)
\* epsilon_closure(states, transitions): the states reached over 'ε' edges
RECURSIVE epsilon_closure(_, _)
epsilon_closure(states, T) ==
    LET nxt == states \cup
               {e[2] : e \in {x \in UNION {Range(get(T, s)) : s \in states} :
                                  x[1] = EPS}}
    IN IF nxt = states THEN states ELSE epsilon_closure(nxt, T)

move(states, sym, T) ==
    {e[2] : e \in {x \in UNION {Range(get(T, s)) : s \in states} : x[1] = sym}}

\* "for ch in w" of simulate_nfa, with its break on an empty set
RECURSIVE nfa_run(_, _, _)
nfa_run(T, cur, w) ==
    IF w = <<>> THEN cur
    ELSE LET nxt == epsilon_closure(move(cur, w[1], T), T)
         IN IF nxt = {} THEN nxt ELSE nfa_run(T, nxt, Tail(w))

simulate_nfa(n, w0) ==
    LET w == IF w0 = <<EPS>> THEN <<>> ELSE w0
        cur == nfa_run(n.transitions, epsilon_closure({n.start}, n.transitions), w)
    IN n.accept \in epsilon_closure(cur, n.transitions)

(***************************************************************************)
(* models/dfa.py                                                           *)
(* A DFA is [states, alphabet, transitions, start, accept_states];         *)
(* transitions maps a state to a map from symbol to state.  A state is a   *)
(* str (a sequence of characters).                                         *)
(***************************************************************************)
NoTrans == [s \in {} |-> <<>>]

DFA == [states |-> {}, alphabet |-> {}, transitions |-> NoTrans,
        start |-> None, accept_states |-> {}]

add_state(d, state) ==
    [d EXCEPT !.states = @ \cup {state},
              !.transitions = IF state \in DOMAIN @ THEN @
                              ELSE [k \in (DOMAIN @) \cup {state} |->
                                       IF k = state THEN NoTrans ELSE @[k]]]

add_transition(d, from_state, symbol, to_state) ==
    LET old == IF from_state \in DOMAIN d.transitions
               THEN d.transitions[from_state] ELSE NoTrans
        row == [a \in (DOMAIN old) \cup {symbol} |->
                   IF a = symbol THEN to_state ELSE old[a]]
    IN [d EXCEPT !.states = @ \cup {from_state, to_state},
                 !.alphabet = @ \cup {symbol},
                 !.transitions = [k \in (DOMAIN @) \cup {from_state} |->
                                     IF k = from_state THEN row ELSE @[k]]]

get_transition(d, state, symbol) ==
    IF state \in DOMAIN d.transitions /\ symbol \in DOMAIN d.transitions[state]
    THEN d.transitions[state][symbol]
    ELSE None

\* a plausible slip: a symbol with no transition is skipped, not rejected
RECURSIVE dfa_run_skipping(_, _, _)
dfa_run_skipping(d, current_state, w) ==
    IF w = <<>> THEN current_state
    ELSE LET next_state == get_transition(d, current_state, w[1])
         IN IF next_state = None THEN dfa_run_skipping(d, current_state, Tail(w))
            ELSE dfa_run_skipping(d, next_state, Tail(w))

\* "for symbol in word" of simulate_dfa: the state reached, None when a
\* transition is missing
RECURSIVE dfa_run(_, _, _)
dfa_run(d, current_state, w) ==
    IF w = <<>> THEN current_state
    ELSE LET next_state == get_transition(d, current_state, w[1])
         IN IF next_state = None THEN None
            ELSE dfa_run(d, next_state, Tail(w))

simulate_dfa(d, w) ==
    IF d.states = {} THEN FALSE
    ELSE LET final == dfa_run(d, d.start, w)
         IN final # None /\ final \in d.accept_states

(***************************************************************************)
(* algorithms/dfa_operations.py                                            *)
(***************************************************************************)
\* every order in which a for loop can iterate over the Python set S
Orders(S) == {f \in [1..Cardinality(S) -> S] : Range(f) = S}

\* a plausible slip: the 'ε' edges are followed one step only
epsilon_closure_dfa_one_step(states, n) ==
    LET T == n.transitions
    IN states \cup
       {e[2] : e \in {x \in UNION {Range(T[s]) : s \in states \cap DOMAIN T} :
                         x[1] = EPS}}

RECURSIVE epsilon_closure_dfa(_, _)
epsilon_closure_dfa(states, n) ==
    LET T == n.transitions
        nxt == states \cup
               {e[2] : e \in {x \in UNION {Range(T[s]) : s \in states \cap DOMAIN T} :
                                  x[1] = EPS}}
    IN IF nxt = states THEN states ELSE epsilon_closure_dfa(nxt, n)

\* a plausible slip: the symbol is not compared
move_dfa_any_symbol(states, symbol, n) ==
    LET T == n.transitions
    IN {e[2] : e \in {x \in UNION {Range(T[s]) : s \in states \cap DOMAIN T} :
                          x[1] # EPS}}

move_dfa(states, symbol, n) ==
    LET T == n.transitions
    IN {e[2] : e \in {x \in UNION {Range(T[s]) : s \in states \cap DOMAIN T} :
                          x[1] = symbol}}

\* ",".join(map(str, lst))
RECURSIVE join_ints(_)
join_ints(lst) ==
    IF Len(lst) = 1 THEN str(lst[1])
    ELSE str(lst[1]) \o <<",">> \o join_ints(Tail(lst))

\* a plausible slip: a set labelled by its smallest state alone
format_state_set_first(states) ==
    IF states = {} THEN <<EMPTYSET>> ELSE str(sorted_ints(states)[1])

\* format_state_set(states)
format_state_set(states) ==
    IF states = {} THEN <<EMPTYSET>>
    ELSE LET sorted_states == sorted_ints(states)
         IN IF Len(sorted_states) = 1 THEN str(sorted_states[1])
            ELSE <<"{">> \o join_ints(sorted_states) \o <<"}">>

\* the alphabet of subset_construction: every symbol of the NFA but 'ε'
nfa_alphabet(n) == {e[1] : e \in edges_of(n.transitions)} \ {EPS}

\* subset_construction up to the while loop: [dfa, queue, processed]; a queue
\* entry is <<DFA state, set of NFA states>>, processed maps a set of NFA states
\* to its DFA state
subset_start(n) ==
    LET start_closure == epsilon_closure_dfa({n.start}, n)
        start_state_name == format_state_set(start_closure)
        d0 == [DFA EXCEPT !.alphabet = nfa_alphabet(n), !.start = start_state_name]
        d1 == add_state(d0, start_state_name)
        d2 == IF n.accept \in start_closure
              THEN [d1 EXCEPT !.accept_states = @ \cup {start_state_name}]
              ELSE d1
    IN [dfa |-> d2,
        queue |-> <<<<start_state_name, start_closure>>>>,
        processed |-> (start_closure :> start_state_name)]

\* a plausible slip: the sets seen before are not recognised
already_processed_never(next_states_frozen, processed_now) == FALSE

\* "if next_states_frozen in processed"
already_processed(next_states_frozen, processed_now) ==
    next_states_frozen \in DOMAIN processed_now

\* a plausible slip: the empty result is not skipped
no_move_never(moved_states) == FALSE

\* "if not moved_states: continue"
no_move(moved_states) == moved_states = {}

\* "for symbol in alphabet" for one dequeued entry, the symbols taken in the
\* order syms
RECURSIVE subset_symbols(_, _, _, _)
subset_symbols(n, cur, syms, st) ==
    IF syms = <<>> THEN st
    ELSE LET symbol == syms[1]
             moved_states == move_dfa(cur[2], symbol, n)
             next_states == epsilon_closure_dfa(moved_states, n)
             known == already_processed(next_states, st.processed)
             next_dfa_state == IF known THEN st.processed[next_states]
                               ELSE format_state_set(next_states)
             d1 == add_state(st.dfa, next_dfa_state)
             d2 == IF n.accept \in next_states
                   THEN [d1 EXCEPT !.accept_states = @ \cup {next_dfa_state}]
                   ELSE d1
             st1 == IF known THEN st
                    ELSE [dfa |-> d2,
                          queue |-> Append(st.queue, <<next_dfa_state, next_states>>),
                          processed |->
                              [k \in (DOMAIN st.processed) \cup {next_states} |->
                                  IF k = next_states THEN next_dfa_state
                                  ELSE st.processed[k]]]
         IN IF no_move(moved_states)
            THEN subset_symbols(n, cur, Tail(syms), st)
            ELSE subset_symbols(n, cur, Tail(syms),
                     [st1 EXCEPT !.dfa = add_transition(@, cur[1], symbol,
                                                        next_dfa_state)])

\* add_transition for every transition of the states in todo that stays
\* inside keep (the last loop of remove_unreachable_states)
RECURSIVE copy_transitions(_, _, _, _)
copy_transitions(new_dfa, d, todo, keep) ==
    IF todo = {} THEN new_dfa
    ELSE LET p == CHOOSE x \in todo : TRUE
         IN copy_transitions(
                IF d.transitions[p[1]][p[2]] \in keep
                THEN add_transition(new_dfa, p[1], p[2], d.transitions[p[1]][p[2]])
                ELSE new_dfa,
                d, todo \ {p}, keep)

\* the states reached from S over the DFA's transitions
RECURSIVE dfa_reach(_, _)
dfa_reach(S, d) ==
    LET nxt == S \cup UNION {Range(d.transitions[s]) : s \in S \cap DOMAIN d.transitions}
    IN IF nxt = S THEN S ELSE dfa_reach(nxt, d)

remove_unreachable_states(d) ==
    LET reachable == dfa_reach({d.start}, d)
        new_dfa == [DFA EXCEPT !.start = d.start, !.alphabet = d.alphabet,
                               !.states = reachable,
                               !.accept_states = d.accept_states \cap reachable]
        todo == {<<s, a>> \in (reachable \cap DOMAIN d.transitions) \X d.alphabet :
                     a \in DOMAIN d.transitions[s]}
    IN copy_transitions(new_dfa, d, todo, reachable)

\* Python's list index of the first block holding the state, -1 for none
find_partition_containing(state, parts) ==
    IF state = None THEN -1
    ELSE IF \E i \in DOMAIN parts : state \in parts[i]
    THEN (CHOOSE i \in DOMAIN parts :
              state \in parts[i] /\ \A j \in 1..(i - 1) : state \notin parts[j]) - 1
    ELSE -1

\* sorted(dfa.alphabet): the symbols are one-character strings
RECURSIVE sorted_symbols(_)
sorted_symbols(S) ==
    IF S = {} THEN <<>>
    ELSE LET m == CHOOSE x \in S : \A y \in S : ord(x) <= ord(y)
         IN <<m>> \o sorted_symbols(S \ {m})

\* the signature refine_partition computes for a state
signature(state, all_partitions, d) ==
    LET syms == sorted_symbols(d.alphabet)
    IN [i \in DOMAIN syms |->
           find_partition_containing(get_transition(d, state, syms[i]),
                                     all_partitions)]

\* the values of refine_partition's groups dict
groups(partition, all_partitions, d) ==
    {{t \in partition : signature(t, all_partitions, d)
                            = signature(s, all_partitions, d)} : s \in partition}

\* refine_partition: every list it can return.  The groups come in the order
\* their first members are met by "for state in partition", which iterates a
\* set: any order of the groups can result
refine_partition(partition, all_partitions, d) ==
    IF Cardinality(partition) <= 1 THEN {<<partition>>}
    ELSE Orders(groups(partition, all_partitions, d))

\* "for partition in partitions" of one pass, from block k on: every
\* new_partitions list it can build
RECURSIVE refine_pass(_, _, _)
refine_pass(parts, k, d) ==
    IF k > Len(parts) THEN {<<>>}
    ELSE {refined \o rest : refined \in refine_partition(parts[k], parts, d),
                            rest \in refine_pass(parts, k + 1, d)}

\* a plausible slip: changed set by every pass
pass_changed_always(parts, d) == TRUE

\* whether a pass over parts sets changed
pass_changed(parts, d) ==
    \E k \in DOMAIN parts :
        \E refined \in refine_partition(parts[k], parts, d) : Len(refined) > 1

\* a plausible slip: the accepting states not taken out of the first block
initial_partitions_overlapping(d) ==
    (IF d.states # {} THEN <<d.states>> ELSE <<>>)
    \o (IF d.accept_states # {} THEN <<d.accept_states>> ELSE <<>>)

\* the initial partition of minimize_dfa
initial_partitions(d) ==
    LET accept_states == d.accept_states
        non_accept_states == d.states \ accept_states
    IN (IF non_accept_states # {} THEN <<non_accept_states>> ELSE <<>>)
       \o (IF accept_states # {} THEN <<accept_states>> ELSE <<>>)

\* "if iteration > 10: break"
IterationLimit == 10

\* f"q{i}" for the Python index i
q_name(i) == <<"q">> \o str(i)

\* add_transition for the representative's transitions, symbol by symbol
RECURSIVE rep_transitions(_, _, _, _, _, _)
rep_transitions(min_dfa, original_dfa, new_state_, representative, syms, state_mapping) ==
    IF syms = {} THEN min_dfa
    ELSE LET symbol == CHOOSE a \in syms : TRUE
             next_old_state == get_transition(original_dfa, representative, symbol)
         IN rep_transitions(
                IF next_old_state # None
                THEN add_transition(min_dfa, new_state_, symbol,
                                    state_mapping[next_old_state])
                ELSE min_dfa,
                original_dfa, new_state_, representative, syms \ {symbol},
                state_mapping)

RECURSIVE block_transitions(_, _, _, _, _, _)
block_transitions(min_dfa, original_dfa, parts, k, rep, state_mapping) ==
    IF k > Len(parts) THEN min_dfa
    ELSE block_transitions(
             rep_transitions(min_dfa, original_dfa, q_name(k - 1), rep[k],
                             original_dfa.alphabet, state_mapping),
             original_dfa, parts, k + 1, rep, state_mapping)

RECURSIVE add_states(_, _)
add_states(d, names) ==
    IF names = {} THEN d
    ELSE LET x == CHOOSE y \in names : TRUE
         IN add_states(add_state(d, x), names \ {x})

\* build_minimized_dfa; rep[k] is the member "next(iter(partition))" yields for
\* block k (any member: the block is a set)
build_minimized_dfa(original_dfa, parts, rep) ==
    LET covered == UNION Range(parts)
        \* a later block overwrites an earlier one's entry
        state_mapping ==
            [old_state \in covered |->
                q_name((CHOOSE i \in DOMAIN parts :
                            old_state \in parts[i]
                            /\ \A j \in (i + 1)..Len(parts) : old_state \notin parts[j])
                       - 1)]
        d0 == add_states([DFA EXCEPT !.alphabet = original_dfa.alphabet],
                         {q_name(i - 1) : i \in DOMAIN parts})
        start_partition == find_partition_containing(original_dfa.start, parts)
        d1 == [d0 EXCEPT !.start = q_name(start_partition),
                         !.accept_states =
                             {q_name(i - 1) : i \in {j \in DOMAIN parts :
                                 parts[j] \cap original_dfa.accept_states # {}}}]
    IN block_transitions(d1, original_dfa, parts, 1, rep, state_mapping)

\* the choices of one representative per block, from block k on
RECURSIVE representatives(_, _)
representatives(parts, k) ==
    IF k > Len(parts) THEN {<<>>}
    ELSE {<<m>> \o rest : m \in parts[k], rest \in representatives(parts, k + 1)}

(***************************************************************************)
(* utils/dfa_validator.py                                                  *)
(***************************************************************************)
\* the second loop of create_simple_dfa_names: names for the states not yet
\* mapped, in sorted order
RECURSIVE name_rest(_, _, _)
name_rest(lst, state_mapping, counter) ==
    IF lst = <<>> THEN state_mapping
    ELSE IF lst[1] \in DOMAIN state_mapping
         THEN name_rest(Tail(lst), state_mapping, counter)
         ELSE name_rest(Tail(lst),
                        [k \in (DOMAIN state_mapping) \cup {lst[1]} |->
                            IF k = lst[1] THEN q_name(counter) ELSE state_mapping[k]],
                        counter + 1)

RECURSIVE rename_transitions(_, _, _, _)
rename_transitions(simplified_dfa, d, todo, state_mapping) ==
    IF todo = {} THEN simplified_dfa
    ELSE LET p == CHOOSE x \in todo : TRUE
         IN rename_transitions(
                add_transition(simplified_dfa, state_mapping[p[1]], p[2],
                               state_mapping[d.transitions[p[1]][p[2]]]),
                d, todo \ {p}, state_mapping)

\* create_simple_dfa_names(dfa): the simplified DFA it returns
create_simple_dfa_names(d) ==
    LET state_mapping == name_rest(sorted_strs(d.states), (d.start :> q_name(0)), 1)
        d0 == add_states(DFA, Range(state_mapping))
        d1 == [d0 EXCEPT !.alphabet = d.alphabet, !.start = state_mapping[d.start]]
        todo == {<<s, a>> \in (DOMAIN d.transitions) \X d.alphabet :
                     a \in DOMAIN d.transitions[s]}
        d2 == rename_transitions(d1, d, todo, state_mapping)
    IN [d2 EXCEPT !.accept_states = @ \cup {state_mapping[x] : x \in d.accept_states}]

\* simulate_dfa_simple(dfa, word)
simulate_dfa_simple(d, w) ==
    LET final == dfa_run(d, d.start, w)
    IN final # None /\ final \in d.accept_states

AbbPattern == <<"(", "a", "|", "b", ")", "*", "a", "b", "b", "(", "a", "|", "b", ")", "*">>

\* the built-in test cases of validate_dfa_for_regex, <<word, expected>>
test_cases(regex_pattern) ==
    IF regex_pattern = AbbPattern
    THEN {<< <<"a", "b", "b">>, TRUE >>,
          << <<"a", "b", "b", "a">>, TRUE >>,
          << <<"a", "b", "b", "b">>, TRUE >>,
          << <<"a", "a", "b", "b">>, TRUE >>,
          << <<"b", "a", "b", "b">>, TRUE >>,
          << <<"a", "b", "a", "b", "a">>, FALSE >>,
          << <<"a", "b", "a", "b">>, FALSE >>,
          << <<"a", "a">>, FALSE >>,
          << <<"b", "b">>, FALSE >>,
          << <<>>, FALSE >>,
          << <<"a", "b", "b", "a", "b", "b">>, TRUE >>,
          << <<"b", "a", "b", "b", "a", "a", "a", "a">>, TRUE >>,
          << <<"a", "a", "b", "b", "b", "a", "a", "a">>, TRUE >>,
          << <<"a", "a", "b", "a", "a">>, FALSE >>}
    ELSE {}

\* validate_dfa_for_regex(dfa, regex_pattern): TRUE when no test case fails
validate_dfa_for_regex(d, regex_pattern) ==
    \A tc \in test_cases(regex_pattern) : simulate_dfa_simple(d, tc[1]) = tc[2]

\* the number of states of minimize_dfa(d).  It is the number of blocks the
\* refinement ends with, which no iteration order changes; the passes are run
\* here in one of the orders refine_pass allows
RECURSIVE refine_loop(_, _, _)
refine_loop(parts, iteration_, d) ==
    LET new_partitions == CHOOSE np \in refine_pass(parts, 1, d) : TRUE
    IN IF pass_changed(parts, d) /\ iteration_ + 1 <= IterationLimit
       THEN refine_loop(new_partitions, iteration_ + 1, d)
       ELSE new_partitions

minimized_size(d) ==
    IF d.states = {} THEN 0
    ELSE LET r == remove_unreachable_states(d)
         IN IF Cardinality(r.states) <= 1 THEN Cardinality(r.states)
            ELSE Len(refine_loop(initial_partitions(r), 0, r))

(***************************************************************************)
(* The pipeline as a state machine: cli/commands.py,                       *)
(* procesar_expresion_completa.  pc is the step about to run.              *)
(***************************************************************************)
\* a TLA+ string as a Python str
chars(s) == [i \in 1..Len(s) |-> SubSeq(s, i, i)]

\* every str over the characters cs of length at most n
Strings(cs, n) == UNION {[1..k -> cs] : k \in 0..n}

\* Bounds of the inputs
MaxExprLen == 3
MaxWordLen == 3
AbbWordLen == 8
PlusWordLen == 5
MaxInnerLen == 2
MaxChain == 13
MaxEdges == 3
MaxPostfixLen == 4
MaxLines == 3

PlusPattern == chars("ab+c")

\* expressions named by the scenarios, and others that use every operator
ListedExprs ==
    {AbbPattern, PlusPattern, chars("a|bc*"), chars("a?"), chars("a+"),
     chars("ε"), chars("(a|b)+"), chars("(ab)?c"), chars("a+?"), chars("a*?"),
     chars("\\+a"), chars("\\(+"), chars("a\\"), chars("a-b"), chars("(ab"),
     chars("ab)"), chars("(a|ε)b"), chars("a**"), chars("(a*b*)*"),
     chars("a|b)c"), chars("a)b")}

\* nesting depth of the unescaped parentheses among the first k characters
RECURSIVE depth_after(_, _)
depth_after(u, k) ==
    IF k = 0 THEN 0
    ELSE depth_after(u, k - 1)
         + (IF u[k] = "(" /\ ~is_escaped(u, k) THEN 1
            ELSE IF u[k] = ")" /\ ~is_escaped(u, k) THEN -1
            ELSE 0)

\* u is one balanced parenthesized group: the parenthesis that opens it is
\* closed by its last character and not before
is_group(u) ==
    /\ Len(u) >= 2
    /\ u[1] = "("
    /\ depth_after(u, Len(u)) = 0
    /\ \A k \in 1..(Len(u) - 1) : depth_after(u, k) > 0

\* the atomic units of the desugarer: a literal, an escape pair, a balanced
\* parenthesized group
Literals == {"a", "b", EPS}
UnitInner == Strings({"a", "|", "+", "?", "(", ")", BSL}, MaxInnerLen)
Units ==
    {<<c>> : c \in Literals}
    \cup {<<BSL, c>> : c \in {"a", "+", "?", "(", ")", BSL}}
    \cup {g \in {<<"(">> \o x \o <<")">> : x \in UnitInner} : is_group(g)}

\* what stands before and after a unit and its operator
Contexts == {<<>>, <<"b">>}
UnitExprs ==
    {p \o u \o <<op>> \o s :
        p \in Contexts, u \in Units, op \in {"+", "?"}, s \in Contexts}

Exprs == Strings({"a", "b", "|", "*", "(", ")"}, MaxExprLen)
         \cup ListedExprs \cup UnitExprs

\* the words tried on an expression
Words(e) ==
    IF e = AbbPattern THEN Strings({"a", "b"}, AbbWordLen)
    ELSE IF e = PlusPattern THEN Strings({"a", "b", "c"}, PlusWordLen)
    ELSE Strings({"a", "b"}, MaxWordLen)
         \cup {<<EPS>>, <<EPS, EPS>>, <<"a", EPS>>, <<EPS, "a">>, <<"c">>}

NoNFA == NFA(0, 0, EmptyTrans)
NoResults == [nfa |-> FALSE, dfa |-> FALSE, dfa_min |-> FALSE, equivalent |-> FALSE]

\* no round of a driver under way
NoCall == [expr |-> <<>>, word |-> None, typed |-> None, at |-> "none"]

\* no driver running, and standard input no terminal
NoBatch ==
    /\ lines = <<>> /\ line_k = 0 /\ idx = 1
    /\ success_count = 0 /\ total_count = 0 /\ handled = <<>>
    /\ strings_file = None /\ stdin = <<>> /\ tty = FALSE
    /\ verbose = FALSE /\ no_graphs = TRUE /\ cross_test = FALSE
    /\ call = NoCall

\* nothing computed yet but the automaton n
Fresh(e, n) ==
    /\ expr = e
    /\ expr2 = <<>> /\ tokens = <<>> /\ postfix = <<>> /\ root = None
    /\ nfa_raw = n /\ nfa = n /\ issues = <<>>
    /\ queue = <<>> /\ processed = EmptyTrans /\ dfa = DFA
    /\ reachable_dfa = DFA /\ partitions = <<>> /\ changed = FALSE
    /\ iteration = 0 /\ dfa_min = DFA
    /\ simple_dfa_orig = DFA /\ simple_dfa_min = DFA
    /\ valid = [orig |-> FALSE, min |-> FALSE]
    /\ word = <<>> /\ results = NoResults /\ second_size = 0
    /\ dequeued = <<>>
    /\ NoBatch

Blank(e) == Fresh(e, NoNFA)

Init == pc = "desugar" /\ \E e \in Exprs : Blank(e)

\* expr2 = expand_plus_question(expr)
Desugar ==
    /\ pc = "desugar"
    /\ UNCHANGED batch_vars
    /\ UNCHANGED dequeued
    /\ expr2' = expand_plus_question(expr)
    /\ pc' = "concat"
    /\ UNCHANGED <<expr, tokens, postfix, root, nfa, issues, queue, processed,
                   dfa, reachable_dfa, partitions, changed, iteration, dfa_min,
                   simple_dfa_orig, simple_dfa_min, valid, word, results,
                   nfa_raw, second_size>>

\* tokens = insert_concatenation(expr2)
Concat ==
    /\ pc = "concat"
    /\ UNCHANGED batch_vars
    /\ UNCHANGED dequeued
    /\ tokens' = insert_concatenation(expr2)
    /\ pc' = "postfix"
    /\ UNCHANGED <<expr, expr2, postfix, root, nfa, issues, queue, processed,
                   dfa, reachable_dfa, partitions, changed, iteration, dfa_min,
                   simple_dfa_orig, simple_dfa_min, valid, word, results,
                   nfa_raw, second_size>>

\* postfix, _ = shunting_yard(tokens)
Postfix ==
    /\ pc = "postfix"
    /\ UNCHANGED batch_vars
    /\ UNCHANGED dequeued
    /\ postfix' = shunting_yard(tokens)
    /\ pc' = "tree"
    /\ UNCHANGED <<expr, expr2, tokens, root, nfa, issues, queue, processed,
                   dfa, reachable_dfa, partitions, changed, iteration, dfa_min,
                   simple_dfa_orig, simple_dfa_min, valid, word, results,
                   nfa_raw, second_size>>

\* root = build_syntax_tree(postfix); an exception ends the run ("error")
BuildTree ==
    /\ pc = "tree"
    /\ UNCHANGED batch_vars
    /\ UNCHANGED dequeued
    /\ LET r == build_syntax_tree(postfix)
       IN /\ root' = r.tree
          /\ pc' = IF r.ok THEN "thompson" ELSE "error"
    /\ UNCHANGED <<expr, expr2, tokens, postfix, nfa, issues, queue, processed,
                   dfa, reachable_dfa, partitions, changed, iteration, dfa_min,
                   simple_dfa_orig, simple_dfa_min, valid, word, results,
                   nfa_raw, second_size>>

\* nfa = thompson_from_ast(root)
Thompson ==
    /\ pc = "thompson"
    /\ UNCHANGED batch_vars
    /\ UNCHANGED dequeued
    /\ LET r == thompson_from_ast(root[1])
       IN /\ nfa_raw' = r.nfa
          /\ nfa' = r.nfa
          /\ pc' = IF r.ok THEN "validate" ELSE "error"
    /\ UNCHANGED <<expr, expr2, tokens, postfix, root, issues, queue, processed,
                   dfa, reachable_dfa, partitions, changed, iteration, dfa_min,
                   simple_dfa_orig, simple_dfa_min, valid, word, results,
                   second_size>>

\* issues = validate_nfa(nfa)
Validate ==
    /\ pc = "validate"
    /\ UNCHANGED batch_vars
    /\ UNCHANGED dequeued
    /\ issues' = validate_nfa(nfa)
    /\ pc' = "renumber"
    /\ UNCHANGED <<expr, expr2, tokens, postfix, root, nfa, queue, processed,
                   dfa, reachable_dfa, partitions, changed, iteration, dfa_min,
                   simple_dfa_orig, simple_dfa_min, valid, word, results,
                   nfa_raw, second_size>>

\* nfa = renumber_nfa(nfa, make_accept_last=True); mapping[nfa.accept] raises
\* KeyError for an accept state that is neither the start nor in a transition
Renumber ==
    /\ pc = "renumber"
    /\ UNCHANGED batch_vars
    /\ UNCHANGED dequeued
    /\ IF nfa.accept \in collect_states(nfa.transitions) \cup {nfa.start}
       THEN nfa' = renumber_nfa(nfa, TRUE) /\ pc' = "subset"
       ELSE nfa' = nfa /\ pc' = "error"
    /\ UNCHANGED <<expr, expr2, tokens, postfix, root, issues, queue, processed,
                   dfa, reachable_dfa, partitions, changed, iteration, dfa_min,
                   simple_dfa_orig, simple_dfa_min, valid, word, results,
                   nfa_raw, second_size>>

\* subset_construction(nfa) up to its while loop.  subset_construction_wrapper
\* calls it, or subset_construction_debug when its question is answered with
\* a yes on a terminal: the same steps with a trace printed, and the same DFA
SubsetInit ==
    /\ pc = "subset"
    /\ UNCHANGED batch_vars
    /\ dequeued' = <<>>
    /\ LET st == subset_start(nfa)
       IN dfa' = st.dfa /\ queue' = st.queue /\ processed' = st.processed
    /\ pc' = "subset_loop"
    /\ UNCHANGED <<expr, expr2, tokens, postfix, root, nfa, issues,
                   reachable_dfa, partitions, changed, iteration, dfa_min,
                   simple_dfa_orig, simple_dfa_min, valid, word, results,
                   nfa_raw, second_size>>

\* one iteration of "while queue"; the symbols of the alphabet (a set) come in
\* any order
SubsetStep ==
    /\ pc = "subset_loop"
    /\ UNCHANGED batch_vars
    /\ dequeued' = Append(dequeued, Head(queue)[2])
    /\ queue # <<>>
    /\ \E syms \in Orders(dfa.alphabet) :
          LET st == subset_symbols(nfa, Head(queue), syms,
                                   [dfa |-> dfa, queue |-> Tail(queue),
                                    processed |-> processed])
          IN /\ dfa' = st.dfa /\ queue' = st.queue /\ processed' = st.processed
             /\ pc' = IF st.queue = <<>> THEN "minimize" ELSE "subset_loop"
    /\ UNCHANGED <<expr, expr2, tokens, postfix, root, nfa, issues,
                   reachable_dfa, partitions, changed, iteration, dfa_min,
                   simple_dfa_orig, simple_dfa_min, valid, word, results,
                   nfa_raw, second_size>>

\* minimize_dfa(dfa) up to its while loop, with its two early returns
MinStart ==
    /\ pc = "minimize"
    /\ UNCHANGED batch_vars
    /\ UNCHANGED dequeued
    /\ IF dfa.states = {}
       THEN /\ dfa_min' = dfa
            /\ pc' = "minimized"
            /\ UNCHANGED <<reachable_dfa, partitions, changed, iteration>>
       ELSE LET r == remove_unreachable_states(dfa)
            IN /\ reachable_dfa' = r
               /\ IF Cardinality(r.states) <= 1
                  THEN /\ dfa_min' = r
                       /\ pc' = "minimized"
                       /\ UNCHANGED <<partitions, changed, iteration>>
                  ELSE /\ partitions' = initial_partitions(r)
                       /\ changed' = TRUE
                       /\ iteration' = 0
                       /\ pc' = "min_loop"
                       /\ UNCHANGED dfa_min
    /\ UNCHANGED <<expr, expr2, tokens, postfix, root, nfa, issues, queue,
                   processed, dfa, simple_dfa_orig, simple_dfa_min, valid, word,
                   results, nfa_raw, second_size>>

\* one pass of "while changed", the break included
MinPass ==
    /\ pc = "min_loop"
    /\ UNCHANGED batch_vars
    /\ UNCHANGED dequeued
    /\ changed
    /\ \E new_partitions \in refine_pass(partitions, 1, reachable_dfa) :
          partitions' = new_partitions
    /\ changed' = pass_changed(partitions, reachable_dfa)
    /\ iteration' = iteration + 1
    /\ pc' = IF iteration' > IterationLimit \/ ~changed' THEN "min_build"
             ELSE "min_loop"
    /\ UNCHANGED <<expr, expr2, tokens, postfix, root, nfa, issues, queue,
                   processed, dfa, reachable_dfa, dfa_min, simple_dfa_orig,
                   simple_dfa_min, valid, word, results, nfa_raw, second_size>>

\* return build_minimized_dfa(reachable_dfa, partitions)
MinBuild ==
    /\ pc = "min_build"
    /\ UNCHANGED batch_vars
    /\ UNCHANGED dequeued
    /\ \E rep \in representatives(partitions, 1) :
          dfa_min' = build_minimized_dfa(reachable_dfa, partitions, rep)
    /\ pc' = "minimized"
    /\ UNCHANGED <<expr, expr2, tokens, postfix, root, nfa, issues, queue,
                   processed, dfa, reachable_dfa, partitions, changed, iteration,
                   simple_dfa_orig, simple_dfa_min, valid, word, results,
                   nfa_raw, second_size>>

\* the two create_simple_dfa_names / validate_dfa_for_regex blocks
ValidateDfas ==
    /\ pc = "minimized"
    /\ UNCHANGED batch_vars
    /\ UNCHANGED dequeued
    /\ simple_dfa_orig' = create_simple_dfa_names(dfa)
    /\ simple_dfa_min' = create_simple_dfa_names(dfa_min)
    /\ valid' = [orig |-> validate_dfa_for_regex(simple_dfa_orig', expr),
                 min |-> validate_dfa_for_regex(simple_dfa_min', expr)]
    /\ pc' = "simulate"
    /\ UNCHANGED <<expr, expr2, tokens, postfix, root, nfa, issues, queue,
                   processed, dfa, reachable_dfa, partitions, changed, iteration,
                   dfa_min, word, results, nfa_raw, second_size>>

\* a plausible slip: the comparison read as (a == b) == c
all_equal_left_assoc(a, b, c) == (a = b) = c

\* the chained comparison nfa_result == dfa_result == dfa_min_result
all_equal(a, b, c) == a = b /\ b = c

\* the simulation of the word on the three automata and the equivalence test,
\* for a call that was passed a word or read one from standard input (the
\* batch drivers below cover the call that finds standard input at its end);
\* results.equivalent: the line "Todos los autómatas son equivalentes" is
\* printed; when it is FALSE the warning "no son equivalentes" is printed
Simulate ==
    /\ pc = "simulate"
    /\ UNCHANGED batch_vars
    /\ UNCHANGED dequeued
    /\ \E w \in Words(expr) :
          LET nfa_result == simulate_nfa(nfa, w)
              dfa_result == simulate_dfa(dfa, w)
              dfa_min_result == simulate_dfa(dfa_min, w)
          IN /\ word' = w
             /\ results' = [nfa |-> nfa_result, dfa |-> dfa_result,
                            dfa_min |-> dfa_min_result,
                            equivalent |-> all_equal(nfa_result, dfa_result,
                                                     dfa_min_result)]
    /\ pc' = "done"
    /\ UNCHANGED <<expr, expr2, tokens, postfix, root, nfa, issues, queue,
                   processed, dfa, reachable_dfa, partitions, changed, iteration,
                   dfa_min, simple_dfa_orig, simple_dfa_min, valid, nfa_raw,
                   second_size>>

Next ==
    \/ Desugar \/ Concat \/ Postfix \/ BuildTree \/ Thompson \/ Validate
    \/ Renumber \/ SubsetInit \/ SubsetStep \/ MinStart \/ MinPass \/ MinBuild
    \/ ValidateDfas \/ Simulate

Spec == Init /\ [][Next]_vars

(***************************************************************************)
(* minimize_dfa applied to its own result.  The expressions are chains     *)
(* a^n, whose DFA needs n - 1 refinement passes, and a few with branches.  *)
(***************************************************************************)
Chain(n) == [i \in 1..n |-> "a"]

MinExprs ==
    {Chain(n) : n \in 1..MaxChain}
    \cup {AbbPattern, PlusPattern, chars("a|b"), chars("(a|b)*"), chars("a*b")}

MinWords ==
    {Chain(n) : n \in 0..(MaxChain + 1)} \cup Strings({"a", "b"}, MaxWordLen)

InitMin == pc = "desugar" /\ \E e \in MinExprs : Blank(e)

\* minimize_dfa(dfa_min): the number of states of its result
Reminimize ==
    /\ pc = "minimized"
    /\ UNCHANGED batch_vars
    /\ UNCHANGED dequeued
    /\ second_size' = minimized_size(dfa_min)
    /\ pc' = "reminimized"
    /\ UNCHANGED <<expr, expr2, tokens, postfix, root, nfa, issues, queue,
                   processed, dfa, reachable_dfa, partitions, changed, iteration,
                   dfa_min, simple_dfa_orig, simple_dfa_min, valid, word,
                   results, nfa_raw>>

NextMin ==
    \/ Desugar \/ Concat \/ Postfix \/ BuildTree \/ Thompson \/ Validate
    \/ Renumber \/ SubsetInit \/ SubsetStep \/ MinStart \/ MinPass \/ MinBuild
    \/ Reminimize

SpecMin == InitMin /\ [][NextMin]_vars

(***************************************************************************)
(* validate_nfa and renumber_nfa on any NFA object: the NFAs of the        *)
(* pipeline and hand-built ones over a few state ids with gaps.            *)
(***************************************************************************)
NfaIds == {0, 2, 5}
NfaSymbols == {"a", EPS}
NfaEdges == NfaIds \X NfaSymbols \X NfaIds
EdgeSets == {E \in SUBSET NfaEdges : Cardinality(E) <= MaxEdges}

\* the (symbol, destination) pairs of E leaving s, as a list
RECURSIVE edge_list(_)
edge_list(S) ==
    IF S = {} THEN <<>>
    ELSE LET e == CHOOSE x \in S : TRUE
         IN insert_edge(edge_list(S \ {e}), e)

transitions_of(E) ==
    [s \in {e[1] : e \in E} |->
        edge_list({<<e[2], e[3]>> : e \in {x \in E : x[1] = s}})]

InitNfa ==
    \/ Init
    \/ /\ pc = "validate"
       /\ \E start \in NfaIds, accept \in NfaIds, E \in EdgeSets :
             Fresh(<<>>, NFA(start, accept, transitions_of(E)))

NextNfa ==
    \/ Desugar \/ Concat \/ Postfix \/ BuildTree \/ Thompson \/ Validate
    \/ Renumber

SpecNfa == InitNfa /\ [][NextNfa]_vars

(***************************************************************************)
(* Properties                                                              *)
(***************************************************************************)
Last(seq) == seq[Len(seq)]

\* C1: for every expression that compiles and every word, the three verdicts
\* are equal: simulate_nfa(N, w) = simulate_dfa(D, w) = simulate_dfa(M, w).
C1_VerdictsEqual ==
    pc = "done" =>
        results.nfa = results.dfa /\ results.dfa = results.dfa_min

\* C2: the word 'ε' denotes the empty word for every simulator: each of the
\* three verdicts on 'ε' is the verdict of the same automaton on ''.
C2_EpsilonWordIsEmptyWord ==
    (pc = "done" /\ word = <<EPS>>) =>
        /\ results.nfa = simulate_nfa(nfa, <<>>)
        /\ results.dfa = simulate_dfa(dfa, <<>>)
        /\ results.dfa_min = simulate_dfa(dfa_min, <<>>)

\* C3: minimize_dfa preserves the accepted language, also when the pass limit
\* ends the refinement: every word gets the same verdict from the result and
\* from the input DFA.
C3_MinimizePreservesLanguage ==
    pc \in {"minimized", "reminimized"} =>
        \A w \in MinWords : simulate_dfa(dfa_min, w) = simulate_dfa(dfa, w)

\* C4: minimization is idempotent on the state count: minimize_dfa of a
\* minimize_dfa result has as many states as that result.
C4_MinimizeIdempotentCount ==
    pc = "reminimized" => second_size = Cardinality(dfa_min.states)

\* C5: for every NFA on which validate_nfa finds nothing, and every NFA of
\* thompson_from_ast, renumber_nfa(n, make_accept_last=True) returns an NFA
\* whose start is 1 and whose accept is the greatest state id in it.
C5_RenumberStartOneAcceptLast ==
    (pc = "subset" /\ (issues = <<>> \/ root # None)) =>
        /\ nfa.start = 1
        /\ \A s \in collect_states(nfa.transitions) \cup {nfa.start} :
              s <= nfa.accept
        /\ nfa.accept \in collect_states(nfa.transitions)

\* C5 witness: a hand-built NFA with three states, no issue, whose start is
\* not 1 and whose accept has the smallest id, has been renumbered.
C5_Witness ==
    /\ pc = "subset" /\ issues = <<>> /\ root = None
    /\ nfa_raw.start = 2 /\ nfa_raw.accept = 0
    /\ Cardinality(collect_states(nfa_raw.transitions)) = 3
    /\ nfa.start = 1 /\ nfa.accept = 3

\* C6: for a|bc*, insert_concatenation followed by shunting_yard yields
\* exactly the postfix tokens a b c * . |
C6_PostfixPrecedence ==
    (expr = chars("a|bc*") /\ pc \notin {"desugar", "concat", "postfix"}) =>
        postfix = <<<<"a">>, <<"b">>, <<"c">>, <<"*">>, <<".">>, <<"|">>>>

\* C6 witness: the postfix form of a|bc* has been computed from its six
\* tokens with the concatenation made explicit.
C6_Witness ==
    /\ expr = chars("a|bc*") /\ pc = "tree"
    /\ tokens = <<<<"a">>, <<"|">>, <<"b">>, <<".">>, <<"c">>, <<"*">>>>
    /\ Len(postfix) = 6

\* the desugared unit: a group keeps its parentheses around its desugared
\* inside, a literal and an escape pair stay as they are
desugared(u) ==
    IF is_group(u)
    THEN <<"(">> \o expand_plus_question(SubSeq(u, 2, Len(u) - 1)) \o <<")">>
    ELSE u

\* C7: expand_plus_question("a+") = "aa*", expand_plus_question("a?") =
\* "(a|ε)", and for every atomic unit u (literal, escape pair, balanced group)
\* followed by '+' the output is u'u'* and followed by '?' it is (u'|ε), u'
\* being the desugared unit; what stands around is copied.
C7_DesugarLaws ==
    pc # "desugar" =>
        /\ expr = chars("a+") => expr2 = chars("aa*")
        /\ expr = chars("a?") => expr2 = chars("(a|ε)")
        /\ \A p \in Contexts, u \in Units, s \in Contexts :
              /\ expr = p \o u \o <<"+">> \o s =>
                    expr2 = p \o desugared(u) \o desugared(u) \o <<"*">> \o s
              /\ expr = p \o u \o <<"?">> \o s =>
                    expr2 = p \o <<"(">> \o desugared(u) \o <<"|", EPS, ")">> \o s

\* C7 witness: a group whose inside holds a sugar operator of its own, itself
\* followed by '+', has been desugared.
C7_Witness ==
    /\ pc = "concat"
    /\ expr = chars("(a?)+")
    /\ expr2 = chars("((a|ε))((a|ε))*")

\* w has the three characters a b b in a row
ContainsAbb(w) ==
    \E i \in 1..(Len(w) - 2) : w[i] = "a" /\ w[i + 1] = "b" /\ w[i + 2] = "b"

\* C8: for (a|b)*abb(a|b)* the NFA, the DFA and the minimal DFA accept a word
\* over {a,b} iff it contains abb, and so do the two DFAs renamed by
\* create_simple_dfa_names, which pass the test cases of the validator.
C8_AbbLanguage ==
    (pc = "done" /\ expr = AbbPattern) =>
        /\ results.nfa = ContainsAbb(word)
        /\ results.dfa = ContainsAbb(word)
        /\ results.dfa_min = ContainsAbb(word)
        /\ simulate_dfa(simple_dfa_orig, word) = ContainsAbb(word)
        /\ simulate_dfa(simple_dfa_min, word) = ContainsAbb(word)
        /\ simulate_dfa_simple(simple_dfa_orig, word) = ContainsAbb(word)
        /\ simulate_dfa_simple(simple_dfa_min, word) = ContainsAbb(word)
        /\ valid.orig /\ valid.min

\* C8 witness: babbaaaa has been accepted by the three automata of
\* (a|b)*abb(a|b)*, the minimal one smaller than the DFA.
C8_Witness ==
    /\ pc = "done" /\ expr = AbbPattern
    /\ word = chars("babbaaaa")
    /\ results.nfa /\ results.dfa /\ results.dfa_min
    /\ Cardinality(dfa_min.states) < Cardinality(dfa.states)

\* w is a, then one or more b, then c
IsABPlusC(w) ==
    /\ Len(w) >= 3
    /\ w[1] = "a" /\ Last(w) = "c"
    /\ \A i \in 2..(Len(w) - 1) : w[i] = "b"

\* C9: for ab+c a word is accepted by each of the three automata iff it is
\* a, then one or more b, then c.
C9_PlusPipeline ==
    (pc = "done" /\ expr = PlusPattern) =>
        /\ results.nfa = IsABPlusC(word)
        /\ results.dfa = IsABPlusC(word)
        /\ results.dfa_min = IsABPlusC(word)

\* C9 witness: abbbc has been accepted by the three automata of ab+c, which
\* was desugared to abb*c.
C9_Witness ==
    /\ pc = "done" /\ expr = PlusPattern
    /\ expr2 = chars("abb*c")
    /\ word = chars("abbbc")
    /\ results.nfa /\ results.dfa /\ results.dfa_min

\* C10: for a single-literal expression each of the three automata accepts
\* the one-character word equal to the literal and no other word.
C10_SingleLiteral ==
    (pc = "done" /\ Len(expr) = 1 /\ expr[1] \in {"a", "b"}) =>
        /\ results.nfa = (word = expr)
        /\ results.dfa = (word = expr)
        /\ results.dfa_min = (word = expr)

\* C10 witness: the expression a has accepted the word a on the three
\* automata.
C10_Witness ==
    /\ pc = "done" /\ expr = <<"a">> /\ word = <<"a">>
    /\ results.nfa /\ results.dfa /\ results.dfa_min

\* the number of unescaped '(' among the first k characters that no later
\* unescaped ')' among them closes
RECURSIVE pending_opens(_, _)
pending_opens(e, k) ==
    IF k = 0 THEN 0
    ELSE LET before == pending_opens(e, k - 1)
         IN IF e[k] = "(" /\ ~is_escaped(e, k) THEN before + 1
            ELSE IF e[k] = ")" /\ ~is_escaped(e, k) /\ before > 0 THEN before - 1
            ELSE before

HasUnmatchedOpen(e) == pending_opens(e, Len(e)) > 0

\* C11: an expression with an unescaped '(' that nothing closes is rejected:
\* its run leaves the desugarer only into the error state, and no automaton
\* is ever built for it.
C11_UnbalancedRejected ==
    HasUnmatchedOpen(expr) => (pc \in {"desugar", "error"} /\ nfa = NoNFA)

(***************************************************************************)
(* build_syntax_tree, thompson_from_ast and validate_nfa on any postfix    *)
(* token list, the ones of the pipeline included.                          *)
(***************************************************************************)
PostfixTokens ==
    {<<"a">>, <<"b">>, <<"*">>, <<"+">>, <<"?">>, <<".">>, <<"|">>}

InitTree ==
    \/ Init
    \/ /\ pc = "tree"
       /\ \E p \in Strings(PostfixTokens, MaxPostfixLen) :
             /\ postfix = p
             /\ expr = <<>> /\ expr2 = <<>> /\ tokens = <<>> /\ root = None
             /\ nfa_raw = NoNFA /\ nfa = NoNFA /\ issues = <<>>
             /\ queue = <<>> /\ processed = EmptyTrans /\ dfa = DFA
             /\ reachable_dfa = DFA /\ partitions = <<>> /\ changed = FALSE
             /\ iteration = 0 /\ dfa_min = DFA
             /\ simple_dfa_orig = DFA /\ simple_dfa_min = DFA
             /\ valid = [orig |-> FALSE, min |-> FALSE]
             /\ word = <<>> /\ results = NoResults /\ second_size = 0
             /\ dequeued = <<>>
             /\ NoBatch

NextTree ==
    \/ Desugar \/ Concat \/ Postfix \/ BuildTree \/ Thompson \/ Validate

SpecTree == InitTree /\ [][NextTree]_vars

\* an operator of the postfix list finds too few operands: fewer than one for
\* * + ?, fewer than two for . |, h being the number of operands before token k
RECURSIVE underflow_from(_, _, _)
underflow_from(p, k, h) ==
    IF k > Len(p) THEN FALSE
    ELSE IF p[k] \in {<<"*">>, <<"+">>, <<"?">>}
    THEN h < 1 \/ underflow_from(p, k + 1, h)
    ELSE IF p[k] \in {<<".">>, <<"|">>}
    THEN h < 2 \/ underflow_from(p, k + 1, h - 1)
    ELSE underflow_from(p, k + 1, h + 1)

Underflows(p) == underflow_from(p, 1, 0)

\* C12: whenever an operator of the postfix list meets too few operands,
\* build_syntax_tree fails and returns no tree.
C12_StackUnderflowFails ==
    (pc \notin {"desugar", "concat", "postfix", "tree"} /\ Underflows(postfix)) =>
        (pc = "error" /\ root = None)

\* C12 witness: the list a | , whose binary operator finds one operand, has
\* ended in the error state without a tree.
C12_Witness ==
    /\ pc = "error" /\ root = None
    /\ postfix = <<<<"a">>, <<"|">>>>

\* the number of trees on the operand stack after the whole postfix list, for
\* a list without underflow
RECURSIVE trees_left(_, _, _)
trees_left(p, k, h) ==
    IF k > Len(p) THEN h
    ELSE IF p[k] \in {<<"*">>, <<"+">>, <<"?">>} THEN trees_left(p, k + 1, h)
    ELSE IF p[k] \in {<<".">>, <<"|">>} THEN trees_left(p, k + 1, h - 1)
    ELSE trees_left(p, k + 1, h + 1)

LeavesSeveralTrees(p) == ~Underflows(p) /\ trees_left(p, 1, 0) > 1

\* C13: whenever more than one tree is left on the operand stack after the
\* last postfix token, build_syntax_tree fails and returns no tree.
C13_LeftoverTreesFail ==
    (pc \notin {"desugar", "concat", "postfix", "tree"}
        /\ LeavesSeveralTrees(postfix)) =>
        (pc = "error" /\ root = None)

\* the token list without its unmatched ')' tokens, h being the number of
\* '(' tokens still open before token k
RECURSIVE without_unmatched_close(_, _, _)
without_unmatched_close(toks, k, h) ==
    IF k > Len(toks) THEN <<>>
    ELSE IF toks[k] = <<"(">>
    THEN <<toks[k]>> \o without_unmatched_close(toks, k + 1, h + 1)
    ELSE IF toks[k] = <<")">>
    THEN IF h > 0 THEN <<toks[k]>> \o without_unmatched_close(toks, k + 1, h - 1)
         ELSE without_unmatched_close(toks, k + 1, h)
    ELSE <<toks[k]>> \o without_unmatched_close(toks, k + 1, h)

\* C14: shunting_yard ignores an unmatched ')': the postfix output of a token
\* list is the output of the same list without its unmatched ')' tokens.
C14_UnmatchedCloseIgnored ==
    pc \notin {"desugar", "concat", "postfix"} =>
        postfix = shunting_yard(without_unmatched_close(tokens, 1, 0))

(***************************************************************************)
(* cli/commands.py, procesar_archivo: one call of                          *)
(* procesar_expresion_completa per line that holds an expression.          *)
(***************************************************************************)
NL == "\n"

\* the characters str.strip() removes, those of str.isspace(): U+0009 to
\* U+000D, U+001C to U+001F, the space, U+0085, U+00A0, U+1680, U+2000 to
\* U+200A, U+2028, U+2029, U+202F, U+205F and U+3000.  The TLA+ lexer does
\* not read the characters from U+2000 on: the name of its code point stands
\* for each of them
Whitespace ==
    {" ", "\t", NL, "\f", "\r", "", "", "", "", "", "", " ", " ",
     "U+2000", "U+2001", "U+2002", "U+2003", "U+2004", "U+2005",
     "U+2006", "U+2007", "U+2008", "U+2009", "U+200A", "U+2028",
     "U+2029", "U+202F", "U+205F", "U+3000"}

\* str.strip()
RECURSIVE lstrip(_)
lstrip(s) ==
    IF s # <<>> /\ s[1] \in Whitespace THEN lstrip(Tail(s)) ELSE s

RECURSIVE rstrip(_)
rstrip(s) ==
    IF s # <<>> /\ s[Len(s)] \in Whitespace
    THEN rstrip(SubSeq(s, 1, Len(s) - 1))
    ELSE s

strip(s) == rstrip(lstrip(s))

\* line.rstrip('\n')
RECURSIVE rstrip_line_end(_)
rstrip_line_end(s) ==
    IF s # <<>> /\ s[Len(s)] = NL
    THEN rstrip_line_end(SubSeq(s, 1, Len(s) - 1))
    ELSE s

\* "if not expr or expr.startswith('#'): continue"
is_skipped(e) == e = <<>> \/ e[1] = "#"

\* the steps of procesar_expresion_completa from expand_plus_question to the
\* validation report raise no exception
compiles(e) ==
    LET r == build_syntax_tree(
                 shunting_yard(insert_concatenation(expand_plus_question(e))))
    IN r.ok /\ thompson_from_ast(r.tree[1]).ok

\* the outcomes the four visualize_ calls can have: none is made with
\* no_graphs, and otherwise they return or raise as Graphviz decides
Drawn(no_graphs_) == IF no_graphs_ THEN {TRUE} ELSE BOOLEAN

\* str.lower()
lower(s) ==
    [i \in 1..Len(s) |->
        IF letter_index(UpperLetters, s[i]) > 0
        THEN LowerLetters[letter_index(UpperLetters, s[i])]
        ELSE s[i]]

\* the answers ask_yes_no takes for a yes
YesAnswers ==
    {<<"s">>, <<"s", "i">>, <<"s", "í">>, <<"y">>, <<"y", "e", "s">>}

\* ask_yes_no(prompt, default_no=True) with the lines stdin_ left on standard
\* input, tty_ telling whether standard input is a terminal: [answer, stdin].
\* Nothing is read unless standard input is a terminal; at its end input()
\* raises EOFError, which ask_yes_no catches itself
ask_yes_no(stdin_, tty_) ==
    IF ~tty_ THEN [answer |-> FALSE, stdin |-> stdin_]
    ELSE IF stdin_ = <<>> THEN [answer |-> FALSE, stdin |-> stdin_]
    ELSE [answer |-> lower(strip(Head(stdin_))) \in YesAnswers,
          stdin |-> Tail(stdin_)]

\* a plausible slip: every processed expression counted as a success
next_success_count_always(count, ok) == count + 1

\* "if procesar_expresion_completa(...): success_count += 1"
next_success_count(count, ok) == IF ok THEN count + 1 ELSE count

\* the lines a file may hold, with their line ends
FileLines ==
    {<<"a", NL>>, <<"a", "|", NL>>, <<NL>>, <<"#", "a", NL>>,
     <<" ", "b", " ", NL>>, <<" ", "#", NL>>, <<"\f", NL>>}

\* the lines of a file whose last line has no line end
without_last_line_end(f) ==
    [i \in 1..Len(f) |->
        IF i = Len(f) THEN SubSeq(f[i], 1, Len(f[i]) - 1) ELSE f[i]]

\* the files: up to MaxLines lines, the last one with or without line end
Files ==
    LET full == Strings(FileLines, MaxLines)
    IN full \cup {without_last_line_end(f) :
                     f \in {g \in full : g # <<>> /\ g[Len(g)] # <<NL>>}}

\* the files of words: none, an empty one, one word, and three lines with an
\* empty one in the middle and no line end at the end
StringsFiles ==
    {None, <<<<>>>>, <<<<<<"a", NL>>>>>>,
     <<<<<<"a", NL>>, <<NL>>, <<" ", "b">>>>>>}

\* what standard input holds, [lines, tty]: a pipe or file with no, one or
\* three lines, a terminal where one line, three or five are typed before
\* the end of input
Stdins ==
    {[lines |-> <<>>, tty |-> FALSE],
     [lines |-> <<<<"a">>>>, tty |-> FALSE],
     [lines |-> <<<<" ", "a">>, <<>>, <<"b">>>>, tty |-> FALSE],
     [lines |-> <<<<"a">>>>, tty |-> TRUE],
     [lines |-> <<<<" ", "S", "i">>, <<>>, <<"b">>>>, tty |-> TRUE],
     [lines |-> <<<<"n">>, <<"a">>, <<"y">>, <<"b">>, <<>>>>, tty |-> TRUE]}

\* the lines typed to modo_interactivo
InteractiveLines == {<<"a">>, <<"a", "|">>, <<>>, <<"S", " ">>}

\* what is typed for one round of modo_interactivo: the expression, the
\* word, the answers for verbose and no_graphs
RoundScripts ==
    {<<<<"a">>, <<"a">>, <<>>, <<"S", " ">>>>,
     <<<<"a", "|">>, <<>>, <<>>, <<>>>>,
     <<<<"a">>, <<>>, <<"S", " ">>, <<"a">>>>}

\* what standard input holds for modo_interactivo: every sequence of up to
\* MaxLines + 3 lines, and two whole rounds
InteractiveStdins ==
    Strings(InteractiveLines, MaxLines + 3)
        \cup {a \o b : a \in RoundScripts, b \in RoundScripts}

\* the strings list of procesar_archivo, None without a file
strings_of(g) ==
    IF g = None THEN None
    ELSE <<[i \in 1..Len(g[1]) |-> rstrip_line_end(g[1][i])]>>

\* "strings[k] if strings and k < len(strings) else None", k counted from 0
word_for(strings, k) ==
    IF strings # None /\ k < Len(strings[1]) THEN <<strings[1][k + 1]>>
    ELSE None

\* the expressions list of procesar_archivo_con_cadenas: the comment test is
\* made on the line as read, before strip
cadenas_expressions(f) ==
    LET kept == SelectSeq(f, LAMBDA l : strip(l) # <<>> /\ l[1] # "#")
    IN [i \in 1..Len(kept) |-> strip(kept[i])]

\* the words list of procesar_archivo_con_cadenas
cadenas_words(g) ==
    LET kept == SelectSeq(g, LAMBDA l : strip(l) # <<>>)
    IN [i \in 1..Len(kept) |-> strip(kept[i])]

\* "xs[i] if i < len(xs) else xs[-1]" of the sequential mode, i counted
\* from 0 and xs not empty
pair_item(xs, i) == IF i < Len(xs) THEN xs[i + 1] ELSE xs[Len(xs)]

\* one cell of the cross test: the expression compiled up to renumber_nfa and
\* the word simulated on the NFA; an exception gives the cell ERROR, which
\* is no success
cell_verdict(e, w) ==
    LET r == build_syntax_tree(
                 shunting_yard(insert_concatenation(expand_plus_question(e))))
    IN IF ~r.ok THEN FALSE
       ELSE LET t == thompson_from_ast(r.tree[1])
            IN t.ok /\ simulate_nfa(renumber_nfa(t.nfa, TRUE), w)

\* the pipeline of one expression not running
NoPipeline ==
    /\ expr = <<>>
    /\ expr2 = <<>> /\ tokens = <<>> /\ postfix = <<>> /\ root = None
    /\ nfa_raw = NoNFA /\ nfa = NoNFA /\ issues = <<>>
    /\ queue = <<>> /\ processed = EmptyTrans /\ dfa = DFA
    /\ reachable_dfa = DFA /\ partitions = <<>> /\ changed = FALSE
    /\ iteration = 0 /\ dfa_min = DFA
    /\ simple_dfa_orig = DFA /\ simple_dfa_min = DFA
    /\ valid = [orig |-> FALSE, min |-> FALSE]
    /\ word = <<>> /\ results = NoResults /\ second_size = 0
    /\ dequeued = <<>>

\* procesar_archivo(regex_path, strings_path, verbose, no_graphs, outdir) or
\* procesar_archivo_con_cadenas(regex_path, strings_path, cross_test, verbose,
\* no_graphs, outdir) has been called and has read its files, or
\* modo_interactivo() has been called.  verbose adds printed lines only; the
\* batch drivers are started without it
InitBatch ==
    /\ \/ /\ pc = "batch"
          /\ \E f \in Files : lines = f
          /\ \E g \in StringsFiles : strings_file = g
          /\ \E i \in Stdins : stdin = i.lines /\ tty = i.tty
          /\ cross_test = FALSE
          /\ no_graphs \in BOOLEAN
       \/ /\ pc = "cadenas"
          /\ \E f \in Strings(FileLines, MaxLines - 1) : lines = f
          /\ \E g \in StringsFiles \ {None} : strings_file = g
          /\ \E i \in Stdins : stdin = i.lines /\ tty = i.tty
          /\ cross_test \in BOOLEAN
          /\ no_graphs \in BOOLEAN
       \/ /\ pc = "interactive"
          /\ lines = <<>> /\ strings_file = None
          /\ \E i \in InteractiveStdins : stdin = i
          /\ tty \in BOOLEAN
          /\ cross_test = FALSE
          /\ no_graphs = FALSE
    /\ verbose = FALSE
    /\ call = NoCall
    /\ line_k = 0 /\ idx = 1
    /\ success_count = 0 /\ total_count = 0 /\ handled = <<>>
    /\ NoPipeline

\* the drivers that call procesar_expresion_completa
Drivers == {"batch", "cadenas", "interactive"}

\* procesar_expresion_completa(expr, word, idx, verbose, no_graphs, outdir)
\* from its first line to the question of subset_construction_wrapper
\* (commands.py:65): an expression that does not compile raises, which the
\* "except Exception" turns into the return value False, and otherwise
\* ask_yes_no reads its answer when standard input is a terminal.  The
\* answer chooses between subset_construction_debug and
\* subset_construction, which build the same DFA
CallAsk ==
    /\ pc \in Drivers
    /\ call.at = "start"
    /\ IF compiles(call.expr)
       THEN /\ stdin' = ask_yes_no(stdin, tty).stdin
            /\ call' = [call EXCEPT !.at = "asked"]
       ELSE /\ call' = [call EXCEPT !.at = "failed"]
            /\ UNCHANGED stdin
    /\ UNCHANGED <<pc, lines, line_k, idx, success_count, total_count,
                   handled, strings_file, tty, verbose, no_graphs,
                   cross_test>>
    /\ UNCHANGED pipeline_vars

\* procesar_expresion_completa from the minimization to the word: the
\* visualize_ calls unless no_graphs, then "if word is None: word =
\* input(...).strip()", where input() raises EOFError at the end of
\* standard input
CallWord ==
    /\ pc \in Drivers
    /\ call.at = "asked"
    /\ \E drawn \in Drawn(no_graphs) :
          IF ~drawn
          THEN /\ call' = [call EXCEPT !.at = "failed"]
               /\ UNCHANGED stdin
          ELSE IF call.word # None
          THEN /\ call' = [call EXCEPT !.at = "simulate"]
               /\ UNCHANGED stdin
          ELSE IF stdin = <<>>
          THEN /\ call' = [call EXCEPT !.at = "failed"]
               /\ UNCHANGED stdin
          ELSE /\ call' = [call EXCEPT !.at = "simulate",
                                       !.typed = <<strip(Head(stdin))>>]
               /\ stdin' = Tail(stdin)
    /\ UNCHANGED <<pc, lines, line_k, idx, success_count, total_count,
                   handled, strings_file, tty, verbose, no_graphs,
                   cross_test>>
    /\ UNCHANGED pipeline_vars

\* procesar_expresion_completa returns to its caller: True after the
\* simulations and the report, False from its except branch
CallReturn ==
    /\ pc \in Drivers
    /\ call.at \in {"simulate", "failed"}
    /\ call' = [call EXCEPT !.at = IF call.at = "simulate" THEN "returned_true"
                                   ELSE "returned_false"]
    /\ handled' = Append(handled, <<call.expr, call.word, call.at = "simulate">>)
    /\ UNCHANGED <<pc, lines, line_k, idx, success_count, total_count,
                   strings_file, stdin, tty, verbose, no_graphs, cross_test>>
    /\ UNCHANGED pipeline_vars

\* "for k, linea in enumerate(f)" of procesar_archivo up to the call of
\* procesar_expresion_completa: a line without expression is passed over,
\* and otherwise total_count is raised and the call begins
BatchLine ==
    /\ pc = "batch"
    /\ call.at = "none"
    /\ line_k < Len(lines)
    /\ LET e == strip(lines[line_k + 1])
       IN IF is_skipped(e)
          THEN /\ line_k' = line_k + 1
               /\ UNCHANGED <<total_count, call>>
          ELSE /\ total_count' = total_count + 1
               /\ call' = [expr |-> e,
                           word |-> word_for(strings_of(strings_file), line_k),
                           typed |-> None, at |-> "start"]
               /\ UNCHANGED line_k
    /\ UNCHANGED <<pc, lines, idx, success_count, handled, strings_file, stdin,
                   tty, verbose, no_graphs, cross_test>>
    /\ UNCHANGED pipeline_vars

\* "if procesar_expresion_completa(...): success_count += 1" of
\* procesar_archivo, once the call has returned
BatchSuccess ==
    /\ pc = "batch"
    /\ call.at \in {"returned_true", "returned_false"}
    /\ success_count' =
          next_success_count(success_count, call.at = "returned_true")
    /\ call' = [call EXCEPT !.at = "counted"]
    /\ UNCHANGED <<pc, lines, line_k, idx, total_count, handled, strings_file,
                   stdin, tty, verbose, no_graphs, cross_test>>
    /\ UNCHANGED pipeline_vars

\* "idx += 1" of procesar_archivo, and the loop goes on with the next line
BatchIdx ==
    /\ pc = "batch"
    /\ call.at = "counted"
    /\ idx' = idx + 1
    /\ line_k' = line_k + 1
    /\ call' = NoCall
    /\ UNCHANGED <<pc, lines, success_count, total_count, handled,
                   strings_file, stdin, tty, verbose, no_graphs, cross_test>>
    /\ UNCHANGED pipeline_vars

\* the end of the file: the summary is printed and the counts returned
BatchEnd ==
    /\ pc = "batch"
    /\ call.at = "none"
    /\ line_k = Len(lines)
    /\ pc' = "batch_done"
    /\ UNCHANGED batch_vars
    /\ UNCHANGED pipeline_vars

\* max(a, b)
max(a, b) == IF a >= b THEN a ELSE b

\* the number of rounds the loop of procesar_archivo_con_cadenas makes: the
\* cells of the cross test, max_pairs in the sequential mode
cadenas_rounds(expressions, words, cross) ==
    IF cross THEN Len(expressions) * Len(words)
    ELSE max(Len(expressions), Len(words))

\* one round of "for i in range(max_pairs)" of the sequential mode up to
\* the call of procesar_expresion_completa: expressions[-1] or words[-1] of
\* an empty list raises IndexError, which nothing catches
CadenasPair ==
    /\ pc = "cadenas"
    /\ call.at = "none"
    /\ ~cross_test
    /\ LET expressions == cadenas_expressions(lines)
           words == cadenas_words(strings_file[1])
       IN /\ line_k < cadenas_rounds(expressions, words, FALSE)
          /\ IF expressions = <<>> \/ words = <<>>
             THEN /\ pc' = "cadenas_error"
                  /\ UNCHANGED <<total_count, call>>
             ELSE /\ pc' = pc
                  /\ total_count' = total_count + 1
                  /\ call' = [expr |-> pair_item(expressions, line_k),
                              word |-> <<pair_item(words, line_k)>>,
                              typed |-> None, at |-> "start"]
    /\ UNCHANGED <<lines, line_k, idx, success_count, handled, strings_file,
                   stdin, tty, verbose, no_graphs, cross_test>>
    /\ UNCHANGED pipeline_vars

\* "if procesar_expresion_completa(...): success_count += 1" of the
\* sequential mode, once the call has returned, and the loop goes on
CadenasSuccess ==
    /\ pc = "cadenas"
    /\ call.at \in {"returned_true", "returned_false"}
    /\ success_count' =
          next_success_count(success_count, call.at = "returned_true")
    /\ line_k' = line_k + 1
    /\ call' = NoCall
    /\ UNCHANGED <<pc, lines, idx, total_count, handled, strings_file, stdin,
                   tty, verbose, no_graphs, cross_test>>
    /\ UNCHANGED pipeline_vars

\* one cell of the cross test begins, "for j, word in enumerate(words)"
\* within "for i, expr in enumerate(expressions)": "total_count += 1"
CadenasCell ==
    /\ pc = "cadenas"
    /\ call.at = "none"
    /\ cross_test
    /\ line_k < cadenas_rounds(cadenas_expressions(lines),
                               cadenas_words(strings_file[1]), TRUE)
    /\ total_count' = total_count + 1
    /\ pc' = "cadenas_cell"
    /\ UNCHANGED <<lines, line_k, idx, success_count, handled, strings_file,
                   stdin, tty, verbose, no_graphs, cross_test, call>>
    /\ UNCHANGED pipeline_vars

\* the cell of the cross test is computed and reported
CadenasCellDone ==
    /\ pc = "cadenas_cell"
    /\ LET expressions == cadenas_expressions(lines)
           words == cadenas_words(strings_file[1])
           e == expressions[(line_k \div Len(words)) + 1]
           w == words[(line_k % Len(words)) + 1]
           result == cell_verdict(e, w)
       IN /\ success_count' = next_success_count(success_count, result)
          /\ handled' = Append(handled, <<e, <<w>>, result>>)
    /\ line_k' = line_k + 1
    /\ pc' = "cadenas"
    /\ UNCHANGED <<lines, idx, total_count, strings_file, stdin, tty, verbose,
                   no_graphs, cross_test, call>>
    /\ UNCHANGED pipeline_vars

\* the loops of procesar_archivo_con_cadenas have ended: the summary is
\* printed and the counts returned
CadenasEnd ==
    /\ pc = "cadenas"
    /\ call.at = "none"
    /\ line_k = cadenas_rounds(cadenas_expressions(lines),
                               cadenas_words(strings_file[1]), cross_test)
    /\ pc' = "cadenas_done"
    /\ UNCHANGED batch_vars
    /\ UNCHANGED pipeline_vars

\* KeyboardInterrupt in a batch driver, at any point of its loop or of the
\* call it is in: neither the driver nor the "except Exception" of
\* procesar_expresion_completa catches it, and the driver ends where it is,
\* without returning its counts
Interrupt ==
    /\ pc \in {"batch", "cadenas", "cadenas_cell"}
    /\ pc' = IF pc = "batch" THEN "batch_interrupted"
             ELSE "cadenas_interrupted"
    /\ UNCHANGED batch_vars
    /\ UNCHANGED pipeline_vars

\* 'expr = input(...).strip()' of modo_interactivo; EOFError ends the loop
InteractiveExpr ==
    /\ pc = "interactive"
    /\ call.at = "none"
    /\ IF stdin = <<>>
       THEN /\ pc' = "interactive_done"
            /\ UNCHANGED <<stdin, call>>
       ELSE /\ stdin' = Tail(stdin)
            /\ pc' = pc
            /\ call' = [expr |-> strip(Head(stdin)), word |-> None,
                        typed |-> None, at |-> "expr"]
    /\ UNCHANGED <<lines, line_k, idx, success_count, total_count, handled,
                   strings_file, tty, verbose, no_graphs, cross_test>>
    /\ UNCHANGED pipeline_vars

\* "if not expr: break"
InteractiveBreak ==
    /\ pc = "interactive"
    /\ call.at = "expr"
    /\ IF call.expr = <<>>
       THEN /\ pc' = "interactive_done"
            /\ UNCHANGED call
       ELSE /\ pc' = pc
            /\ call' = [call EXCEPT !.at = "word"]
    /\ UNCHANGED <<lines, line_k, idx, success_count, total_count, handled,
                   strings_file, stdin, tty, verbose, no_graphs, cross_test>>
    /\ UNCHANGED pipeline_vars

\* 'word = input(...).strip()' and "word = word if word else None"
InteractiveWord ==
    /\ pc = "interactive"
    /\ call.at = "word"
    /\ IF stdin = <<>>
       THEN /\ pc' = "interactive_done"
            /\ UNCHANGED <<stdin, call>>
       ELSE /\ stdin' = Tail(stdin)
            /\ pc' = pc
            /\ call' = [call EXCEPT
                           !.word = IF strip(Head(stdin)) = <<>> THEN None
                                    ELSE <<strip(Head(stdin))>>,
                           !.at = "verbose"]
    /\ UNCHANGED <<lines, line_k, idx, success_count, total_count, handled,
                   strings_file, tty, verbose, no_graphs, cross_test>>
    /\ UNCHANGED pipeline_vars

\* "verbose = input(...).strip().lower() == 's'"
InteractiveVerbose ==
    /\ pc = "interactive"
    /\ call.at = "verbose"
    /\ IF stdin = <<>>
       THEN /\ pc' = "interactive_done"
            /\ UNCHANGED <<stdin, call, verbose>>
       ELSE /\ stdin' = Tail(stdin)
            /\ pc' = pc
            /\ verbose' = (lower(strip(Head(stdin))) = <<"s">>)
            /\ call' = [call EXCEPT !.at = "no_graphs"]
    /\ UNCHANGED <<lines, line_k, idx, success_count, total_count, handled,
                   strings_file, tty, no_graphs, cross_test>>
    /\ UNCHANGED pipeline_vars

\* "no_graphs = input(...).strip().lower() == 's'", and the call of
\* procesar_expresion_completa begins
InteractiveNoGraphs ==
    /\ pc = "interactive"
    /\ call.at = "no_graphs"
    /\ IF stdin = <<>>
       THEN /\ pc' = "interactive_done"
            /\ UNCHANGED <<stdin, call, no_graphs>>
       ELSE /\ stdin' = Tail(stdin)
            /\ pc' = pc
            /\ no_graphs' = (lower(strip(Head(stdin))) = <<"s">>)
            /\ call' = [call EXCEPT !.at = "start"]
    /\ UNCHANGED <<lines, line_k, idx, success_count, total_count, handled,
                   strings_file, tty, verbose, cross_test>>
    /\ UNCHANGED pipeline_vars

\* "idx += 1" of modo_interactivo, which does not look at the value the call
\* has returned, and the loop goes on
InteractiveIdx ==
    /\ pc = "interactive"
    /\ call.at \in {"returned_true", "returned_false"}
    /\ idx' = idx + 1
    /\ call' = NoCall
    /\ UNCHANGED <<pc, lines, line_k, success_count, total_count, handled,
                   strings_file, stdin, tty, verbose, no_graphs, cross_test>>
    /\ UNCHANGED pipeline_vars

\* KeyboardInterrupt in modo_interactivo: at one of its prompts or within
\* the call of procesar_expresion_completa modo_interactivo catches it and
\* ends its loop; between two rounds, before the first, and in an except
\* branch that is ending the loop, it comes outside the try statement, and
\* modo_interactivo raises it
InteractiveInterrupt ==
    /\ \/ pc = "interactive" /\ pc' = "interactive_interrupted"
       \/ /\ \/ pc = "interactive" /\ call.at = "none"
             \/ pc \in {"interactive_done", "interactive_interrupted"}
          /\ pc' = "interactive_raised"
    /\ UNCHANGED batch_vars
    /\ UNCHANGED pipeline_vars

NextBatch ==
    \/ BatchLine \/ BatchSuccess \/ BatchIdx \/ BatchEnd
    \/ CadenasPair \/ CadenasSuccess \/ CadenasCell \/ CadenasCellDone
    \/ CadenasEnd
    \/ CallAsk \/ CallWord \/ CallReturn
    \/ Interrupt
    \/ InteractiveExpr \/ InteractiveBreak \/ InteractiveWord
    \/ InteractiveVerbose \/ InteractiveNoGraphs \/ InteractiveIdx \/ InteractiveInterrupt

SpecBatch == InitBatch /\ [][NextBatch]_vars

\* the expressions of a file: its stripped lines that are neither empty nor
\* comments, in file order
ExpressionsOf(f) ==
    SelectSeq([i \in 1..Len(f) |-> strip(f[i])],
              LAMBDA e : e # <<>> /\ e[1] # "#")

\* C15: in procesar_archivo an expression that fails to compile is counted as
\* failed and aborts nothing else: every non-empty, non-comment line is
\* processed exactly once, in file order; at the end total_count is the
\* number of such lines and success_count the number of them whose call
\* completed without error.
C15_BatchContinuesAfterError ==
    pc = "batch_done" =>
        LET es == ExpressionsOf(lines)
        IN /\ total_count = Len(es)
           /\ idx = Len(es) + 1
           /\ Len(handled) = Len(es)
           /\ \A i \in 1..Len(es) :
                 /\ handled[i][1] = es[i]
                 /\ handled[i][3] => compiles(es[i])
                 /\ (no_graphs /\ handled[i][2] # None)
                       => (handled[i][3] = compiles(es[i]))
           /\ success_count =
                 Cardinality({i \in 1..Len(es) : handled[i][3]})

\* C15 witness: a file whose first expression fails to compile and whose
\* later two succeed, their words read from standard input, has been
\* processed to its end: three processed, two successes.
C15_Witness ==
    /\ pc = "batch_done"
    /\ lines = <<<<"a", "|", NL>>, <<" ", "b", " ", NL>>, <<"a">>>>
    /\ strings_file = None /\ no_graphs /\ ~tty
    /\ stdin = <<<<"b">>>>
    /\ line_k = 3
    /\ total_count = 3 /\ success_count = 2
    /\ handled = <<<<<<"a", "|">>, None, FALSE>>, <<<<"b">>, None, TRUE>>,
                   <<<<"a">>, None, TRUE>>>>

(***************************************************************************)
(* The equivalence report of procesar_expresion_completa.                  *)
(***************************************************************************)
\* C16: after the three simulations the warning is printed exactly when the
\* three verdicts are not all equal, and the equivalence line otherwise
C16_WarningIffVerdictsDiffer ==
    pc = "done" =>
        ((~results.equivalent)
            <=> (results.nfa # results.dfa \/ results.dfa # results.dfa_min
                 \/ results.nfa # results.dfa_min))

\* a run whose three simulations all reject and which prints the equivalence line
C16_Witness ==
    /\ pc = "done"
    /\ ~results.nfa /\ ~results.dfa /\ ~results.dfa_min
    /\ results.equivalent

(***************************************************************************)
(* The shape of the automata of thompson_from_ast.                         *)
(***************************************************************************)
\* C17: the NFA thompson_from_ast returns for a tree of leaves and . | * + ?
\* has a start without incoming transitions, an accept without outgoing
\* ones, every state and the accept reachable from the start, and
\* validate_nfa returns no issue for it
C17_ThompsonInvariants ==
    (pc \in {"validate", "renumber"} /\ root # None) =>
        LET T == nfa.transitions
            seen == reach_from({nfa.start}, T)
        IN /\ indegree(T, nfa.start) = 0
           /\ outdegree(T, nfa.accept) = 0
           /\ collect_states(T) \cup {nfa.start, nfa.accept} \subseteq seen
           /\ nfa.accept \in seen
           /\ pc = "renumber" => issues = <<>>

\* the validated automaton of a tree with a '+' over a union under its root
C17_Witness ==
    /\ pc = "renumber"
    /\ issues = <<>>
    /\ postfix = <<<<"a">>, <<"b">>, <<"|">>, <<"+">>>>
    /\ root # None
    /\ root[1].value = <<"+">>

(***************************************************************************)
(* renumber_nfa as a renaming.                                             *)
(***************************************************************************)
\* the words the renumbered automaton is compared on
RenameWords == Strings({"a", "b"}, MaxWordLen) \cup {<<EPS>>}

\* renumber_nfa has returned nfa for nfa_raw and has only renamed: its mapping
\* is a bijection from the states of the input onto 1..N, the transitions of
\* the result are the input's transitions with every state replaced by its
\* image, and simulate_nfa gives the same verdict on the result as on the
\* input for every word
only_renames ==
    /\ pc = "subset"
    /\ LET T == nfa_raw.transitions
           states == collect_states(T) \cup {nfa_raw.start}
           mapping == renumber_mapping(nfa_raw, TRUE)
           N == Cardinality(states)
       IN /\ DOMAIN mapping = states
          /\ {mapping[s] : s \in states} = 1..N
          /\ \A s, t \in states : mapping[s] = mapping[t] => s = t
          /\ nfa.start = mapping[nfa_raw.start]
          /\ nfa.accept = mapping[nfa_raw.accept]
          /\ DOMAIN nfa.transitions
               = {mapping[s] : s \in {x \in DOMAIN T : T[x] # <<>>}}
          /\ \A s \in DOMAIN T : \A i \in 1..Len(T[s]) :
                /\ Len(nfa.transitions[mapping[s]]) = Len(T[s])
                /\ nfa.transitions[mapping[s]][i]
                     = <<T[s][i][1], mapping[T[s][i][2]]>>
          /\ \A w \in RenameWords :
                simulate_nfa(nfa, w) = simulate_nfa(nfa_raw, w)

\* the call of renumber_nfa has ended, with a result or with the KeyError of
\* mapping[nfa.accept]: of the steps that lead to pc = "error", Renumber is
\* the only one that comes after Validate, and validate_nfa reports the
\* accept state that Renumber fails on
renumber_called ==
    pc = "subset" \/ (pc = "error" /\ issues # <<>>)

\* C18: renumber_nfa only renames, for every NFA n: it returns, its mapping
\* is a bijection from the states of n onto 1..N, the transitions of the
\* result are those of n with every state replaced by its image, and
\* simulate_nfa gives the same verdict on the result as on n for every word
C18_RenumberOnlyRenames == renumber_called => only_renames

(***************************************************************************)
(* The states subset_construction creates.                                 *)
(***************************************************************************)
\* subset_construction has returned
SubsetDone ==
    pc \notin {"desugar", "concat", "postfix", "tree", "thompson", "validate",
               "renumber", "call", "subset", "subset_loop", "error"}

\* the targets of the transitions of a DFA
dfa_targets(d) ==
    UNION {{d.transitions[s][a] : a \in DOMAIN d.transitions[s]} :
              s \in DOMAIN d.transitions}

\* C19: subset_construction creates no state for the empty set: the label of
\* the empty set is neither a state of the DFA nor the target of a transition,
\* at any moment of the construction, and in the DFA returned the transition
\* of the state of a set S on a symbol a is undefined exactly when move(S, a)
\* is empty
C19_NoEmptySetState ==
    /\ <<EMPTYSET>> \notin dfa.states
    /\ <<EMPTYSET>> \notin dfa_targets(dfa)
    /\ {} \notin DOMAIN processed
    /\ SubsetDone =>
          \A S \in DOMAIN processed : \A a \in dfa.alphabet :
              (a \notin DOMAIN dfa.transitions[processed[S]])
                  <=> (move(S, a, nfa.transitions) = {})

\* a DFA returned with an undefined transition next to a defined one, on the
\* same symbol
C19_Witness ==
    /\ pc = "minimize"
    /\ \E a \in dfa.alphabet :
          /\ \E S \in DOMAIN processed :
                /\ a \notin DOMAIN dfa.transitions[processed[S]]
                /\ move(S, a, nfa.transitions) = {}
          /\ \E S \in DOMAIN processed :
                a \in DOMAIN dfa.transitions[processed[S]]

\* the sets of NFA states reachable from the closure of the start by moves
\* followed by closures, the empty set left out
RECURSIVE reachable_sets(_, _)
reachable_sets(found, n) ==
    LET T == n.transitions
        nxt == found \cup
               ({epsilon_closure(move(S, a, T), T) :
                    S \in found, a \in nfa_alphabet(n)} \ {{}})
    IN IF nxt = found THEN found ELSE reachable_sets(nxt, n)

\* C20: in subset_construction the DFA states and the reachable sets of NFA
\* states correspond one to one: no set is allocated twice, two different sets
\* never get the same label, and the DFA returned has as many states as there
\* are distinct reachable epsilon-closed sets
C20_StatesMatchReachableSets ==
    /\ (pc = "subset_loop" \/ SubsetDone) =>
          /\ \A S, R \in DOMAIN processed :
                processed[S] = processed[R] => S = R
          /\ dfa.states = {processed[S] : S \in DOMAIN processed}
          /\ Cardinality(dfa.states) = Cardinality(DOMAIN processed)
          /\ \A i, j \in DOMAIN queue : queue[i][2] = queue[j][2] => i = j
    /\ SubsetDone =>
          LET sets == reachable_sets(
                          {epsilon_closure({nfa.start}, nfa.transitions)}, nfa)
          IN /\ DOMAIN processed = sets
             /\ Cardinality(dfa.states) = Cardinality(sets)

\* a DFA returned with four states, one of them reached again from another
\* state and from itself
C20_Witness ==
    /\ pc = "minimize"
    /\ Cardinality(dfa.states) >= 4
    /\ Cardinality(DOMAIN processed) = Cardinality(dfa.states)
    /\ \E s, t \in dfa.states : \E a \in dfa.alphabet :
          /\ s # t
          /\ a \in DOMAIN dfa.transitions[s]
          /\ a \in DOMAIN dfa.transitions[t]
          /\ dfa.transitions[s][a] = t
          /\ dfa.transitions[t][a] = t

(***************************************************************************)
(* subset_construction called on any NFA object: the NFAs the pipeline     *)
(* passes to it and hand-built ones.  Python runs the function's           *)
(* statements one after the other until it returns, which is the fairness  *)
(* of its steps.                                                           *)
(***************************************************************************)
\* the NFA the pipeline passes to subset_construction for the expression e,
\* as a set: empty when the expression does not compile
compiled_nfas(e) ==
    LET t == build_syntax_tree(
                 shunting_yard(insert_concatenation(expand_plus_question(e))))
        r == thompson_from_ast(t.tree[1])
    IN IF t.ok /\ r.ok THEN {renumber_nfa(r.nfa, TRUE)} ELSE {}

HandBuiltNfas ==
    {NFA(start, accept, transitions_of(E)) :
        start \in NfaIds, accept \in NfaIds, E \in EdgeSets}

SubsetInputs == HandBuiltNfas \cup UNION {compiled_nfas(e) : e \in Exprs}

InitSubset == pc = "call" /\ Blank(<<>>)

\* dfa = subset_construction(n) is called
CallSubset ==
    /\ pc = "call"
    /\ \E n \in SubsetInputs : nfa' = n /\ nfa_raw' = n
    /\ pc' = "subset"
    /\ UNCHANGED <<expr, expr2, tokens, postfix, root, issues, queue, processed,
                   dfa, reachable_dfa, partitions, changed, iteration, dfa_min,
                   simple_dfa_orig, simple_dfa_min, valid, word, results,
                   second_size, dequeued>>
    /\ UNCHANGED batch_vars

NextSubset == CallSubset \/ SubsetInit \/ SubsetStep

\* the call makes its next step: it enters the loop, or the loop takes the
\* head of the queue.  SubsetInit and SubsetStep are the only steps that do
\* so, and they never block.
SubsetRuns ==
    \/ pc = "subset" /\ pc' = "subset_loop" /\ dequeued' = <<>>
    \/ /\ pc = "subset_loop" /\ queue # <<>>
       /\ pc' \in {"subset_loop", "minimize"}
       /\ dequeued' = Append(dequeued, Head(queue)[2])

SpecSubset ==
    InitSubset /\ [][NextSubset]_vars /\ WF_<<pc, dequeued>>(SubsetRuns)

\* 2^n
RECURSIVE pow2(_)
pow2(n) == IF n = 0 THEN 1 ELSE 2 * pow2(n - 1)

\* the states of an NFA object
nfa_states(n) == collect_states(n.transitions) \cup {n.start, n.accept}

\* the sets of NFA states put in the queue so far, in order: those taken out,
\* then those waiting
enqueued_sets == dequeued \o [i \in DOMAIN queue |-> queue[i][2]]

\* C21: subset_construction terminates: each set of NFA states is enqueued at
\* most once and dequeued at most once, the loop runs at most
\* 2^(number of NFA states) times, and the queue eventually becomes empty
C21_SubsetTerminates ==
    /\ [](pc = "subset_loop" \/ SubsetDone =>
            /\ \A i, j \in DOMAIN enqueued_sets :
                  enqueued_sets[i] = enqueued_sets[j] => i = j
            /\ Len(enqueued_sets) <= pow2(Cardinality(nfa_states(nfa))))
    /\ (pc = "subset") ~> (pc = "minimize" /\ queue = <<>>)

\* the construction has ended on a hand-built NFA with a cycle after three
\* iterations of the loop
C21_Witness ==
    /\ pc = "minimize" /\ nfa \in HandBuiltNfas
    /\ queue = <<>>
    /\ Len(dequeued) = 3
    /\ \E S \in DOMAIN processed : \E a \in dfa.alphabet :
          /\ a \in DOMAIN dfa.transitions[processed[S]]
          /\ dfa.transitions[processed[S]][a] = processed[S]

(***************************************************************************)
(* The refinement loop of minimize_dfa.                                    *)
(***************************************************************************)
\* C22 as stated: the loop makes at most 10 refinement passes
C22_AtMostTenPasses ==
    pc \in {"min_loop", "min_build"} => iteration <= IterationLimit

\* C22: the loop makes at most 11 refinement passes (the test
\* "iteration > 10" comes after the pass), it goes on to another pass only
\* after a pass that split a block, and it leaves after a pass that split
\* nothing or after the eleventh
C22_AtMostElevenPasses ==
    [][pc = "min_loop" =>
          /\ iteration' = iteration + 1
          /\ iteration' <= IterationLimit + 1
          /\ pc' = "min_loop" =>
                /\ Len(partitions') > Len(partitions)
                /\ iteration' <= IterationLimit
          /\ pc' = "min_build" =>
                \/ Len(partitions') = Len(partitions)
                \/ iteration' = IterationLimit + 1]_vars

\* the eleventh pass has run and split nothing: the chain of twelve states
\* needed ten splitting passes and one more to see that it is stable
C22_Witness ==
    /\ pc = "min_build"
    /\ iteration = IterationLimit + 1
    /\ ~changed
    /\ Len(partitions) = 12

\* the partitions the loop of minimize_dfa can end with, from the partition
\* parts after it passes
RECURSIVE final_partitions(_, _, _)
final_partitions(parts, it, d) ==
    UNION {IF it + 1 > IterationLimit \/ ~pass_changed(parts, d)
           THEN {new_partitions}
           ELSE final_partitions(new_partitions, it + 1, d) :
              new_partitions \in refine_pass(parts, 1, d)}

\* minimize_dfa(d): every DFA it can return, over the orders in which the
\* sets can be iterated
minimize_dfa_results(d) ==
    IF d.states = {} THEN {d}
    ELSE LET r == remove_unreachable_states(d)
         IN IF Cardinality(r.states) <= 1 THEN {r}
            ELSE {build_minimized_dfa(r, parts, rep) :
                     <<parts, rep>> \in
                        UNION {{<<p, x>> : x \in representatives(p, 1)} :
                                  p \in final_partitions(initial_partitions(r), 0, r)}}

\* C23: minimize_dfa is deterministic: the DFA returned for a DFA is the same
\* whatever the iteration order of the sets and the representatives picked
C23_MinimizeDeterministic ==
    pc = "minimized" => minimize_dfa_results(dfa) = {dfa_min}

\* C24: in the partition handed to build_minimized_dfa all members of a block
\* have the same signature (on every symbol all lack a transition or all lead
\* into the same block), so the DFA built is the same for every choice of
\* representatives
C24_BlocksShareSignature ==
    pc = "min_build" =>
        /\ \A k \in DOMAIN partitions : \A s, t \in partitions[k] :
              signature(s, partitions, reachable_dfa)
                  = signature(t, partitions, reachable_dfa)
        /\ \A r1, r2 \in representatives(partitions, 1) :
              build_minimized_dfa(reachable_dfa, partitions, r1)
                  = build_minimized_dfa(reachable_dfa, partitions, r2)

(***************************************************************************)
(* minimize_dfa on the DFA of any NFA object, hand-built ones included.    *)
(***************************************************************************)
NextAnyDfa ==
    \/ CallSubset \/ SubsetInit \/ SubsetStep
    \/ MinStart \/ MinPass \/ MinBuild

SpecAnyDfa == InitSubset /\ [][NextAnyDfa]_vars

\* whether the DFA d, started in the state s, accepts w
accepts_from(d, s, w) ==
    LET final == dfa_run(d, s, w)
    IN final # None /\ final \in d.accept_states

\* the states of d reached from its start
RECURSIVE states_reached(_, _)
states_reached(d, S) ==
    LET nxt == S \cup ({get_transition(d, s, a) : s \in S, a \in d.alphabet}
                         \ {None})
    IN IF nxt = S THEN S ELSE states_reached(d, nxt)

\* C25: when the refinement ended at a fixed point, the DFA returned is
\* minimal: all its states are reachable, it has no more states than the
\* reachable part of the input, and no two different states accept the same
\* words
C25_MinimalAtFixedPoint ==
    (pc = "minimized" /\ ~changed /\ dfa.states # {}) =>
        /\ states_reached(dfa_min, {dfa_min.start}) = dfa_min.states
        /\ Cardinality(dfa_min.states)
              <= Cardinality(states_reached(dfa, {dfa.start}))
        /\ \A p, q \in dfa_min.states :
              p # q =>
                 \E w \in Strings(dfa_min.alphabet, Cardinality(dfa_min.states)) :
                    accepts_from(dfa_min, p, w) # accepts_from(dfa_min, q, w)

(***************************************************************************)
(* The '+' node of thompson_from_ast.                                      *)
(***************************************************************************)
\* the nodes of a tree
RECURSIVE nodes_of(_)
nodes_of(node) ==
    {node}
    \cup (IF node.left = None THEN {} ELSE nodes_of(node.left[1]))
    \cup (IF node.right = None THEN {} ELSE nodes_of(node.right[1]))

\* whether w is one or more words accepted by the NFA n, one after the other
RECURSIVE repeats(_, _)
repeats(n, w) ==
    \/ simulate_nfa(n, w)
    \/ \E i \in 1..(Len(w) - 1) :
          /\ simulate_nfa(n, SubSeq(w, 1, i))
          /\ repeats(n, SubSeq(w, i + 1, Len(w)))

\* C26: a '+' node over a subtree A compiles, up to renumber_nfa, to the NFA
\* of the tree '.'(A, '*'(A)): two copies of the states of A and the two
\* states of the star, and no others; it accepts exactly the words made of one
\* or more words of A
C26_PlusIsConcatStar ==
    (pc \in {"validate", "renumber"} /\ root # None) =>
        \A node \in {x \in nodes_of(root[1]) : x.value = <<"+">> /\ x.left # None} :
            LET P == thompson_from_ast(node).nfa
                A == thompson_from_ast(node.left[1]).nfa
                star == [value |-> <<"*">>, left |-> node.left, right |-> None]
                cat == [value |-> <<".">>, left |-> node.left, right |-> <<star>>]
                Q == thompson_from_ast(cat).nfa
            IN /\ renumber_nfa(P, TRUE) = renumber_nfa(Q, TRUE)
               /\ Cardinality(nfa_states(P)) = 2 * Cardinality(nfa_states(A)) + 2
               /\ \A w \in Strings({"a", "b"}, MaxWordLen) :
                     simulate_nfa(P, w) <=> repeats(A, w)

\* the automaton of (a|b)+ has been built: two copies of the six states of
\* a|b, and the two states of the star
C26_Witness ==
    /\ pc = "validate"
    /\ postfix = <<<<"a">>, <<"b">>, <<"|">>, <<"+">>>>
    /\ Cardinality(nfa_states(nfa)) = 14
    /\ simulate_nfa(nfa, <<"a", "b", "a">>)
    /\ ~simulate_nfa(nfa, <<>>)

(***************************************************************************)
(* The state ids of one thompson_from_ast call.                            *)
(***************************************************************************)
\* the number of new_state calls build makes for a tree
RECURSIVE allocations(_)
allocations(node) ==
    IF node.left = None /\ node.right = None THEN 2
    ELSE IF node.value \in {<<".">>}
    THEN allocations(node.left[1]) + allocations(node.right[1])
    ELSE IF node.value = <<"|">>
    THEN allocations(node.left[1]) + allocations(node.right[1]) + 2
    ELSE IF node.value = <<"+">>
    THEN 3 * allocations(node.left[1]) + 2
    ELSE allocations(node.left[1]) + 2

\* build(node) entered with the counter at id: the ids it hands out are
\* id + 1, id + 2, ... without a gap or a repeat, and at every binary node
\* the two operand NFAs have no state and no transition key in common
RECURSIVE ids_in_sequence(_, _)
ids_in_sequence(node, id) ==
    LET r == build(node, id)
    IN /\ r.id = id + allocations(node)
       /\ nfa_states(r.nfa) \subseteq (id + 1)..r.id
       /\ IF node.left = None /\ node.right = None
          THEN r.nfa.start = id + 1 /\ r.nfa.accept = id + 2
          ELSE IF node.value \in {<<".">>, <<"|">>}
          THEN LET A == build(node.left[1], id)
                   B == build(node.right[1], A.id)
               IN /\ ids_in_sequence(node.left[1], id)
                  /\ ids_in_sequence(node.right[1], A.id)
                  /\ nfa_states(A.nfa) \cap nfa_states(B.nfa) = {}
                  /\ (DOMAIN A.nfa.transitions) \cap (DOMAIN B.nfa.transitions) = {}
                  /\ \A s \in nfa_states(A.nfa), t \in nfa_states(B.nfa) : s < t
                  /\ edges_of(A.nfa.transitions) \cup edges_of(B.nfa.transitions)
                        \subseteq edges_of(r.nfa.transitions)
          ELSE IF node.value = <<"+">>
          THEN LET A == build(node.left[1], id)
               IN /\ ids_in_sequence(node.left[1], id)
                  /\ ids_in_sequence(
                         [value |-> <<".">>, left |-> node.left,
                          right |-> <<[value |-> <<"*">>, left |-> node.left,
                                       right |-> None]>>],
                         A.id)
          ELSE LET A == build(node.left[1], id)
               IN /\ ids_in_sequence(node.left[1], id)
                  /\ nfa_states(r.nfa) = nfa_states(A.nfa) \cup {A.id + 1, A.id + 2}

\* C27: in one thompson_from_ast call new_state returns 1, 2, 3, ... without
\* a repeat, so that the operand NFAs of every binary node are disjoint and
\* merging their transitions keeps them apart; the call starts at 1 whatever
\* was compiled before
C27_FreshStateIds ==
    (pc \in {"validate", "renumber"} /\ root # None) =>
        /\ ids_in_sequence(root[1], 0)
        /\ nfa = thompson_from_ast(root[1]).nfa
        /\ nfa_states(nfa) \subseteq 1..allocations(root[1])

\* the automaton of ab|* has been built: its union gets the states 5 and 6
\* after the operands' 1, 2 and 3, 4, and its star the states 7 and 8
C27_Witness ==
    /\ pc = "validate"
    /\ postfix = <<<<"a">>, <<"b">>, <<"|">>, <<"*">>>>
    /\ nfa.start = 7 /\ nfa.accept = 8
    /\ nfa_states(nfa) = 1..8

(***************************************************************************)
(* subset_construction against simulate_nfa.                               *)
(***************************************************************************)
\* the words without an 'ε' tried on the two automata
PlainWords == Strings({"a", "b"}, MaxWordLen)

\* the set of NFA states reachable on w, as simulate_nfa computes it
nfa_set_after(n, w) ==
    epsilon_closure(
        nfa_run(n.transitions, epsilon_closure({n.start}, n.transitions), w),
        n.transitions)

\* C28: for every NFA n and every word w without 'ε',
\* simulate_dfa(subset_construction(n), w) = simulate_nfa(n, w); the DFA state
\* reached on a prefix is the state of the set of NFA states reachable on that
\* prefix (no state when the set is empty), and it is accepting exactly when
\* the set contains n.accept
C28_DfaSimulatesNfa ==
    SubsetDone =>
        \A w \in PlainWords :
            LET S == nfa_set_after(nfa, w)
                q == dfa_run(dfa, dfa.start, w)
            IN /\ simulate_dfa(dfa, w) = simulate_nfa(nfa, w)
               /\ IF S = {} THEN q = None
                  ELSE /\ S \in DOMAIN processed
                       /\ q = processed[S]
                       /\ q = format_state_set(S)
                       /\ (q \in dfa.accept_states) <=> (nfa.accept \in S)

\* the DFA of a hand-built NFA with an 'ε' edge and a loop has been returned:
\* it accepts aa, as the NFA does, in the state of the set {0, 2}
C28_Witness ==
    /\ pc = "minimize"
    /\ nfa \in HandBuiltNfas
    /\ \E e \in edges_of(nfa.transitions) : e[1] = EPS
    /\ nfa_set_after(nfa, <<"a", "a">>) = {0, 2}
    /\ dfa_run(dfa, dfa.start, <<"a", "a">>) = chars("{0,2}")
    /\ simulate_dfa(dfa, <<"a", "a">>)
    /\ simulate_nfa(nfa, <<"a", "a">>)
    /\ ~simulate_dfa(dfa, <<>>)

(***************************************************************************)
(* The blocks of minimize_dfa's refinement loop.                           *)
(***************************************************************************)
\* parts is a list of non-empty, pairwise disjoint blocks that cover S
is_partition_of(parts, S) ==
    /\ \A i \in DOMAIN parts : parts[i] # {}
    /\ \A i, j \in DOMAIN parts : i # j => parts[i] \cap parts[j] = {}
    /\ UNION {parts[i] : i \in DOMAIN parts} = S

\* every block of fine lies within one block of coarse
refines(fine, coarse) ==
    \A i \in DOMAIN fine : \E j \in DOMAIN coarse : fine[i] \subseteq coarse[j]

\* C29: throughout the refinement loop of minimize_dfa the blocks are a
\* partition of the reachable states, each block wholly accepting or wholly
\* non-accepting, with no more blocks than reachable states; and every pass
\* yields a partition that refines the one before, with at least as many
\* blocks
C29_BlocksArePartition ==
    /\ [](pc \in {"min_loop", "min_build"} =>
            /\ is_partition_of(partitions, reachable_dfa.states)
            /\ \A i \in DOMAIN partitions :
                  \/ partitions[i] \subseteq reachable_dfa.accept_states
                  \/ partitions[i] \cap reachable_dfa.accept_states = {}
            /\ Len(partitions) <= Cardinality(reachable_dfa.states))
    /\ [][pc = "min_loop" =>
            /\ refines(partitions', partitions)
            /\ Len(partitions') >= Len(partitions)
            /\ Len(partitions') <= Cardinality(reachable_dfa.states)
            /\ reachable_dfa' = reachable_dfa]_vars

\* the loop has ended after three passes or more with four blocks or more,
\* one of them holding several states
C29_Witness ==
    /\ pc = "min_build"
    /\ iteration >= 3
    /\ Len(partitions) >= 4
    /\ \E i \in DOMAIN partitions : Cardinality(partitions[i]) >= 2
    /\ is_partition_of(partitions, reachable_dfa.states)

(***************************************************************************)
(* The pipeline with and without expand_plus_question.                     *)
(***************************************************************************)
SugarLiterals == {"a", "b", "c"}
SugarPostfixOps == {"*", "+", "?"}

\* the parentheses still open after the first i characters, -1 once a ")"
\* had no "(" to close
RECURSIVE open_depth(_, _)
open_depth(e, i) ==
    IF i = 0 THEN 0
    ELSE LET d == open_depth(e, i - 1)
         IN IF d < 0 THEN -1
            ELSE IF e[i] = "(" THEN d + 1
            ELSE IF e[i] = ")" THEN d - 1
            ELSE d

\* e is an expression built from literals, parentheses, |, *, + and ?: the
\* parentheses match, an operand stands before every postfix operator and on
\* both sides of every |, and no group is empty
is_sugar_expression(e) ==
    /\ e # <<>>
    /\ \A i \in DOMAIN e : e[i] \in SugarLiterals \cup SugarPostfixOps \cup {"(", ")", "|"}
    /\ \A i \in DOMAIN e : open_depth(e, i) >= 0
    /\ open_depth(e, Len(e)) = 0
    /\ e[1] \notin SugarPostfixOps \cup {"|", ")"}
    /\ e[Len(e)] \notin {"|", "("}
    /\ \A i \in 2..Len(e) :
          /\ e[i] \in SugarPostfixOps \cup {"|", ")"} => e[i - 1] \notin {"(", "|"}

\* the pipeline without expand_plus_question, up to the NFA: [ok, nfa]
native_nfa(e) ==
    LET t == build_syntax_tree(shunting_yard(insert_concatenation(e)))
    IN IF ~t.ok THEN [ok |-> FALSE, nfa |-> NoNFA]
       ELSE LET r == thompson_from_ast(t.tree[1])
            IN [ok |-> r.ok, nfa |-> r.nfa]

\* C30: for every expression built from literals, parentheses, |, *, + and ?,
\* stacked sugar operators included, the pipeline with expand_plus_question
\* compiles without error and its NFA accepts the same words as the NFA
\* compiled without it, by the '+' and '?' branches of thompson_from_ast
C30_DesugarPreservesLanguage ==
    (is_sugar_expression(expr) /\ pc \in {"error", "validate"}) =>
        /\ pc # "error"
        /\ native_nfa(expr).ok
        /\ \A w \in Strings({"a", "b"}, MaxWordLen) :
              simulate_nfa(nfa, w) = simulate_nfa(native_nfa(expr).nfa, w)

====
